---- MODULE Spec2Model ----
(***************************************************************************)
(* A model of the MAS-Writer orchestration layer (src/App.tsx) and of the  *)
(* agent contracts it calls (src/services/geminiService.ts).               *)
(*                                                                         *)
(* One flow of one project is held in the four flow variables; the other  *)
(* flows of the project are kept aside by id.  Every handler of App is     *)
(* a closure over the render it was created in: an asynchronous handler    *)
(* keeps, across its await, the activeFlow / activeContent / section id of *)
(* the render in which the command was issued.  A call in flight is a      *)
(* record of that captured data; its completion is a separate step that    *)
(* writes through updateActiveFlow, i.e. { ...f, ...updates } on the flow  *)
(* with the captured id as it is then.                                     *)
(***************************************************************************)
EXTENDS Integers, Sequences, FiniteSets, Bags, TLC

VARIABLES
    outline,             \* activeFlow.outline : OutlineItem[]
    contents,            \* activeFlow.contents : Record<string, SectionContent>
    outlineDraft,        \* activeFlow.outlineDraft
    outlinerMessages,    \* activeFlow.outlinerMessages
    coordinatorPrompt,   \* activeProject.coordinatorPrompt
    view,                \* useState<'projectList' | 'projectDashboard' | 'editor'>
    activeSectionId,     \* useState<string | null>
    agentStatus,         \* useState<AgentStatus>
    researchAgentStatus, \* useState<AgentStatus>
    calls,               \* bag of the calls in flight, each with its closure
    tailored,            \* ids for which createTailoredSystemPrompt has been called
    lastEvent,           \* the handler step that produced this state
    budget,              \* user commands still to be issued in this run
    flowId,              \* activeFlow.id: the flow the four variables above belong to
    parked,              \* activeProject.flows without activeFlow, by id
    globalKnowledgeFiles,   \* activeProject.globalKnowledgeFiles
    globalKnowledgeContext, \* activeProject.globalKnowledgeContext
    reads                \* the runs of generateContext that await their file reads

vars == << outline, contents, outlineDraft, outlinerMessages, coordinatorPrompt,
           view, activeSectionId, agentStatus, researchAgentStatus, calls, tailored,
           lastEvent, budget, flowId, parked, globalKnowledgeFiles,
           globalKnowledgeContext, reads >>

flowVars == << outline, contents, outlineDraft, outlinerMessages >>

\* the other flows of the project
otherFlowVars == << flowId, parked >>

\* the knowledge base of the project
knowledgeVars == << globalKnowledgeFiles, globalKnowledgeContext, reads >>

(***************************************************************************)
(* Bounds of the model.                                                    *)
(***************************************************************************)
MaxCalls == 2            \* calls in flight at the same time
MaxCommands == 6         \* user commands in one run
MaxShortCommands == 5    \* user commands in one run of the short specifications
MaxTreeSteps == 3        \* applications of updateItemStatus in one run of TreeSpec
MaxContextIds == 3       \* length of the contextIds a caller passes to handleGenerate
MaxHistory == 3          \* length of the history a caller passes to generateContent
MaxWriterCommands == 3   \* user commands in one run of WriterSpec
MaxNodes == 3            \* nodes of an outline handed to addMetadataToOutline
MaxExportCommands == 3   \* user commands in one run of ExportSpec
MaxLines == 4            \* lines of a response researchTopic receives
MaxFiles == 2            \* files in the knowledge base of the project
MaxKnowledgeCommands == 4 \* user commands in a run of the knowledge base
MaxFlowCommands == 4     \* user commands in a run over two flows

(***************************************************************************)
(* Values.                                                                 *)
(***************************************************************************)
Null == "null"

Outline == "outline"
Writing == "writing"
Completed == "completed"
SectionStatus == {Outline, Writing, Completed}

Idle == "idle"
Thinking == "thinking"
AgentStatus == {Idle, Thinking}

DEFAULT_COORDINATOR_PROMPT == "COORD"

Msg(sender, text) == [sender |-> sender, text |-> text]

\* the text a user can type into the section editor
UserTexts == {"", "edit"}
\* the text a user can type into the Writer chat box (non-blank)
Prompts == {"more"}
\* the text a user can type into the outline editor; " " is blank after trim()
DraftTexts == {" ", "- Intro"}
\* what the model answers
WriterResponses == {"draft"}
OutlinerResponses == {"- Intro\n- Body"}
TailorResponses == {"You are a writer."}

Trim(s) == IF s = " " THEN "" ELSE s

\* JSON values the Parse call can answer with: arrays of { title, children }
RawLeaf(t) == [title |-> t, children |-> <<>>]
RawOutlines ==
    { << [title |-> "1. Intro", children |-> << RawLeaf("1.1. Sub") >>] >>,
      << RawLeaf("1. Intro"), RawLeaf("2. Body") >> }

\* what the Parse call can come back with
ParseResponses ==
    { [transport |-> "error", json |-> "none", value |-> <<>>],
      [transport |-> "ok", json |-> "invalid", value |-> <<>>],
      [transport |-> "ok", json |-> "object", value |-> <<>>] }
    \cup { [transport |-> "ok", json |-> "array", value |-> r] : r \in RawOutlines }

\* what the Research call can come back with: the lines of response.text, the
\* grounding chunks beside it, and the clock when the results are built
Response(lines, groundingChunks, now) ==
    [lines |-> lines, groundingChunks |-> groundingChunks, now |-> now]
ResearchResponses ==
    { Response(<<>>, <<>>, 100), Response(<< "1. A", "Summary: s" >>, <<>>, 100) }

(***************************************************************************)
(* Outline tree (src/App.tsx 19-47, src/services/geminiService.ts 75-88).  *)
(***************************************************************************)
NoItem == [id |-> Null, title |-> "", level |-> 0, status |-> Outline, children |-> <<>>]

RECURSIVE findItem(_, _)
findItem(items, id) ==
    IF items = <<>> THEN NoItem
    ELSE LET item == Head(items) IN
         IF item.id = id THEN item
         ELSE LET found == findItem(item.children, id) IN
              IF found # NoItem THEN found ELSE findItem(Tail(items), id)

\* updateItemStatus without the id test on an item that has no children
RECURSIVE updateItemStatus_everyLeaf(_, _, _)
updateItemStatus_everyLeaf(items, id, status) ==
    [ i \in 1..Len(items) |->
        IF items[i].id # id /\ Len(items[i].children) > 0
        THEN [items[i] EXCEPT
                !.children = updateItemStatus_everyLeaf(items[i].children, id, status)]
        ELSE [items[i] EXCEPT !.status = status] ]

RECURSIVE updateItemStatus(_, _, _)
updateItemStatus(items, id, status) ==
    [ i \in 1..Len(items) |->
        IF items[i].id = id
        THEN [items[i] EXCEPT !.status = status]
        ELSE IF Len(items[i].children) > 0
             THEN [items[i] EXCEPT !.children = updateItemStatus(items[i].children, id, status)]
             ELSE items[i] ]

\* addMetadataToOutline numbering the items from 0
RECURSIVE addMetadataToOutline_zeroBased(_, _, _)
addMetadataToOutline_zeroBased(items, level, parentId) ==
    [ index \in 1..Len(items) |->
        LET id == IF parentId # "" THEN parentId \o "." \o ToString(index - 1)
                  ELSE ToString(index - 1)
        IN [ id |-> id,
             title |-> IF items[index].title # "" THEN items[index].title ELSE "Untitled",
             level |-> level,
             status |-> Outline,
             children |-> addMetadataToOutline_zeroBased(items[index].children, level + 1, id) ] ]

\* addMetadataToOutline numbering children without the id of their parent
RECURSIVE addMetadataToOutline_noParentId(_, _, _)
addMetadataToOutline_noParentId(items, level, parentId) ==
    [ index \in 1..Len(items) |->
        [ id |-> ToString(index),
          title |-> IF items[index].title # "" THEN items[index].title ELSE "Untitled",
          level |-> level,
          status |-> Outline,
          children |-> addMetadataToOutline_noParentId(items[index].children, level + 1,
                                                       ToString(index)) ] ]

RECURSIVE addMetadataToOutline(_, _, _)
addMetadataToOutline(items, level, parentId) ==
    [ index \in 1..Len(items) |->
        LET id == IF parentId # "" THEN parentId \o "." \o ToString(index)
                  ELSE ToString(index)
        IN [ id |-> id,
             title |-> IF items[index].title # "" THEN items[index].title ELSE "Untitled",
             level |-> level,
             status |-> Outline,
             children |-> addMetadataToOutline(items[index].children, level + 1, id) ] ]

\* the objects of a tree none of which is replaced
RECURSIVE sameObjects(_)
sameObjects(items) ==
    [ i \in 1..Len(items) |->
        [ id |-> items[i].id, object |-> "same",
          children |-> sameObjects(items[i].children) ] ]

\* updateItemStatus at the level of object identity: { ...item, ... } is a new
\* object, "return item" is the object of the input, and the children of the
\* item whose id matches are carried over as they are
RECURSIVE updateItemStatusObjects(_, _)
updateItemStatusObjects(items, id) ==
    [ i \in 1..Len(items) |->
        IF items[i].id = id
        THEN [ id |-> items[i].id, object |-> "new",
               children |-> sameObjects(items[i].children) ]
        ELSE IF Len(items[i].children) > 0
             THEN [ id |-> items[i].id, object |-> "new",
                    children |-> updateItemStatusObjects(items[i].children, id) ]
             ELSE [ id |-> items[i].id, object |-> "same", children |-> <<>> ] ]

\* the sections the outline pane lists (allSections / OutlineNode recursion)
RECURSIVE allSections(_)
allSections(items) ==
    IF items = <<>> THEN <<>>
    ELSE << Head(items) >> \o allSections(Head(items).children) \o allSections(Tail(items))

SectionIds(items) == LET all == allSections(items) IN { all[i].id : i \in 1..Len(all) }

StatusOf(items, id) == findItem(items, id).status

(***************************************************************************)
(* Section content store (src/App.tsx 188).                                *)
(***************************************************************************)
\* the default of activeContent; systemPrompt is undefined (falsy), here ""
DefaultContent ==
    [ content |-> "", messages |-> <<>>, sessionFiles |-> <<>>, contextIds |-> <<>>,
      research_results |-> <<>>, systemPrompt |-> "" ]

\* cs[id] || default
ContentOf(cs, id) == IF id \in DOMAIN cs THEN cs[id] ELSE DefaultContent

\* { ...cs, [id]: entry }
Put(cs, id, entry) == (id :> entry) @@ cs

\* the editor view renders the panes whose handlers follow (src/App.tsx 514)
inEditor == view = "editor"

activeSection == IF activeSectionId = Null THEN NoItem ELSE findItem(outline, activeSectionId)
activeContent == ContentOf(contents, activeSectionId)
isOutlining == activeSection = NoItem

(***************************************************************************)
(* Calls in flight.                                                        *)
(***************************************************************************)
InFlight == BagToSet(calls)
NumCalls == BagCardinality(calls)
CallsOf(kind) == { c \in InFlight : c.kind = kind }

\* the closure of an asynchronous handler at its await, reduced to what the
\* handler reads: the section id, the section (title and status) or the prompt,
\* the log built before the call, the captured contents / outliner log /
\* coordinator prompt, and what a Writer call sends along
Call(kind, id, title, status, newMessages, cs, log, coordinator, request) ==
    [ kind |-> kind, id |-> id, title |-> title, status |-> status,
      newMessages |-> newMessages, contents |-> cs, outlinerMessages |-> log,
      coordinatorPrompt |-> coordinator, request |-> request,
      flow |-> flowId ]

\* line 373: the text of one reference
formatRef(ref) == "--- REF: " \o ref.title \o " ---\n" \o ref.content

\* Array.prototype.join
RECURSIVE join(_, _)
join(seq, sep) ==
    IF seq = <<>> THEN ""
    ELSE IF Len(seq) = 1 THEN seq[1]
         ELSE seq[1] \o sep \o join(Tail(seq), sep)

\* lines 373-374: the references as one text
contextSections(refs) == join([k \in 1..Len(refs) |-> formatRef(refs[k])], "\n\n")

\* what handleGenerate holds besides the log when it calls generateContent
\* (src/App.tsx 355, 370-382): its contextIds argument, the references built from
\* it, and the arguments contextSections, researchContext and systemInstruction
Request(contextIds, refs, researchContext, systemInstruction) ==
    [ contextIds |-> contextIds, contextRefs |-> refs,
      contextSections |-> contextSections(refs),
      researchContext |-> researchContext, systemInstruction |-> systemInstruction,
      globalKnowledgeContext |-> globalKnowledgeContext ]

NoRequest == Request(<<>>, <<>>, <<>>, "")

\* a handler reaches its await / its continuation runs
Started(c) == NumCalls < MaxCalls /\ calls' = calls (+) SetToBag({c})
Finished(c) == calls' = calls (-) SetToBag({c})

\* the flow the four flow variables hold, as one record
activeFlow ==
    [ outline |-> outline, contents |-> contents, outlineDraft |-> outlineDraft,
      outlinerMessages |-> outlinerMessages ]

\* variant: the updates go to the flow that is open when the call completes
updateActiveFlow_openFlow(c, updates) ==
    LET merge(g) == [ k \in DOMAIN g |-> IF k \in DOMAIN updates THEN updates[k] ELSE g[k] ]
        f == merge(activeFlow)
    IN  /\ outline' = f.outline
        /\ contents' = f.contents
        /\ outlineDraft' = f.outlineDraft
        /\ outlinerMessages' = f.outlinerMessages
        /\ UNCHANGED parked

\* src/App.tsx 116-127, as called by the continuation of c: the callback the
\* closure holds was made with the flow id of the render of the command, and
\* setProjects merges the updates into the flow that has this id now
updateActiveFlow(c, updates) ==
    \* { ...f, ...updates }, one key at a time
    LET merged(g, k) == IF k \in DOMAIN updates THEN updates[k] ELSE g[k]
    IN  IF c.flow = flowId
        THEN /\ outline' = merged(activeFlow, "outline")
             /\ contents' = merged(activeFlow, "contents")
             /\ outlineDraft' = merged(activeFlow, "outlineDraft")
             /\ outlinerMessages' = merged(activeFlow, "outlinerMessages")
             /\ UNCHANGED parked
        ELSE /\ parked' = [parked EXCEPT ![c.flow] = [ k \in DOMAIN @ |-> merged(@, k) ]]
             /\ UNCHANGED flowVars

\* a step and, in data, what it took from or handed to the world outside the state
EventWith(op, id, data) == [op |-> op, id |-> id, data |-> data]
Event(op, id) == EventWith(op, id, <<>>)

\* a user command, counted against the budget of the run
Command(op, id) == budget > 0 /\ budget' = budget - 1 /\ lastEvent' = Event(op, id)
CommandWith(op, id, data) ==
    budget > 0 /\ budget' = budget - 1 /\ lastEvent' = EventWith(op, id, data)
\* the continuation of a handler after its await
Completion(op, id) == budget' = budget /\ lastEvent' = Event(op, id)
CompletionWith(op, id, data) == budget' = budget /\ lastEvent' = EventWith(op, id, data)

\* createNewFlow (src/App.tsx 60-69) opened in the editor, no section selected
InitWith(commands) ==
    /\ outline = <<>>
    /\ contents = <<>>
    /\ outlineDraft = ""
    /\ outlinerMessages = << Msg("agent", "What is the topic of your document?") >>
    /\ coordinatorPrompt = DEFAULT_COORDINATOR_PROMPT
    /\ view = "editor"
    /\ flowId = "F1"
    /\ parked = << >>
    /\ globalKnowledgeFiles = << >>
    /\ globalKnowledgeContext = ""
    /\ reads = {}
    /\ activeSectionId = Null
    /\ agentStatus = Idle
    /\ researchAgentStatus = Idle
    /\ calls = EmptyBag
    /\ tailored = {}
    /\ lastEvent = Event("init", Null)
    /\ budget = commands

Init == InitWith(MaxCommands)

(***************************************************************************)
(* Agent contracts (src/services/geminiService.ts).                        *)
(***************************************************************************)
\* parseOutlineText, lines 147-173: every failure is rethrown as one error
parseOutlineText(response) ==
    IF response.transport = "ok" /\ response.json = "array"
    THEN [ok |-> TRUE, outline |-> addMetadataToOutline(response.value, 0, "")]
    ELSE [ok |-> FALSE, outline |-> <<>>]

\* createTailoredSystemPrompt, line 276
createTailoredSystemPrompt(coordinator, responseText) ==
    coordinator \o "\n\n---\n\n" \o Trim(responseText)

\* the fallback of handleSelectSection, src/App.tsx 231
defaultPrompt(coordinator, title) ==
    coordinator \o "\n\nYou are an expert academic writer. Your task is to write the content for the section \""
                \o title \o "\"."

\* src/App.tsx 362
finalPrompt(prompt, title) ==
    IF prompt # "" THEN prompt
    ELSE "Write the content for the section titled \"" \o title \o "\"."

GENERATE_ERROR == "Failed to generate content from AI Agent."
EMPTY_HISTORY_ERROR == "Cannot generate content with an empty message history."

\* src/App.tsx 376-378: the research results as one text
formatResearch(r) ==
    "--- RESEARCH RESULT: " \o r.title \o " ---\nURL: " \o r.url \o "\nSummary: " \o r.summary

\* variant: the research part opens with a heading of its own
researchContextOf_headed(results) ==
    "--- RESEARCH ---\n" \o join([k \in 1..Len(results) |-> formatResearch(results[k])], "\n\n")

researchContextOf(results) ==
    join([k \in 1..Len(results) |-> formatResearch(results[k])], "\n\n")

\* variant: the research results come before the knowledge base
splice_researchFirst(knowledge, research, sections, originalPrompt) ==
    "\n" \o research \o "\n\n" \o knowledge \o "\n\n" \o sections
         \o "\n---\nUser instruction: \"" \o originalPrompt \o "\"\n"

\* geminiService.ts 45-54, the template literal without its indentation
splice(knowledge, research, sections, originalPrompt) ==
    "\n" \o knowledge \o "\n\n" \o research \o "\n\n" \o sections
         \o "\n---\nUser instruction: \"" \o originalPrompt \o "\"\n"

roleOf(msg) == IF msg.sender = "user" THEN "user" ELSE "model"

\* geminiService.ts 37-55: one new turn per message, the context spliced into the
\* last turn when it is a user turn
geminiHistory(messages, sections, research, knowledge) ==
    [k \in 1..Len(messages) |->
        [role |-> roleOf(messages[k]),
         text |-> IF k = Len(messages) /\ roleOf(messages[k]) = "user"
                  THEN splice(knowledge, research, sections, messages[k].text)
                  ELSE messages[k].text]]

\* what a call of generateContent does up to its await: thrown is the error of
\* lines 30-32 ("" when none), called says whether ai.models.generateContent was
\* reached, contents and systemInstruction are what it was given, and messages is
\* the caller's array as the call leaves it
Sent(thrown, called, history, systemInstruction, messages) ==
    [ thrown |-> thrown, called |-> called, contents |-> history,
      systemInstruction |-> systemInstruction, messages |-> messages ]

\* generateContent without the test of lines 30-32
generateContent_noLengthTest(messages, sections, research, knowledge, systemInstruction) ==
    Sent("", TRUE, geminiHistory(messages, sections, research, knowledge),
         systemInstruction, messages)

\* generateContent with the context written into the caller's last message
\* instead of into a copy of it
generateContent_inPlace(messages, sections, research, knowledge, systemInstruction) ==
    IF messages = <<>>
    THEN Sent(EMPTY_HISTORY_ERROR, FALSE, <<>>, systemInstruction, messages)
    ELSE LET history == geminiHistory(messages, sections, research, knowledge)
         IN Sent("", TRUE, history, systemInstruction,
                 [k \in 1..Len(messages) |-> Msg(messages[k].sender, history[k].text)])

\* geminiService.ts 27-63
generateContent(messages, sections, research, knowledge, systemInstruction) ==
    IF messages = <<>>
    THEN Sent(EMPTY_HISTORY_ERROR, FALSE, <<>>, systemInstruction, messages)
    ELSE Sent("", TRUE, geminiHistory(messages, sections, research, knowledge),
              systemInstruction, messages)

\* src/App.tsx 382: the call a Writer closure made
sentBy(c) ==
    generateContent(c.newMessages, c.request.contextSections,
                    researchContextOf(c.request.researchContext),
                    c.request.globalKnowledgeContext,
                    c.request.systemInstruction)

\* the error the catch block of handleGenerate receives when the call fails
errorOf(c) == IF sentBy(c).called THEN GENERATE_ERROR ELSE sentBy(c).thrown

NO_SUMMARY == "No summary available."

\* lines[i].match(/(?:^\d+\.\s*|Title:)\s*(.*)/i) on the lines of the model:
\* whether it matches, and the text of its group
titleMatch(line) ==
    CASE line = "1. A" -> [matched |-> TRUE, text |-> "A"]
      [] line = "2. **B**" -> [matched |-> TRUE, text |-> "**B**"]
      [] line = "Title: C" -> [matched |-> TRUE, text |-> "C"]
      [] line = "3." -> [matched |-> TRUE, text |-> ""]
      [] OTHER -> [matched |-> FALSE, text |-> ""]

\* lines[i+1].match(/^\d+\.\s*|Title:/i)
looksLikeTitle(line) == line \in {"1. A", "2. **B**", "Title: C", "3."}

\* .replace(/\*\*/g, '').trim()
stripBold(text) == IF text = "**B**" THEN "B" ELSE Trim(text)

\* .replace(/(Summary:)\s*/i, '').trim()
stripSummary(line) == IF line = "Summary: s" THEN "s" ELSE Trim(line)

nonBlank(line) == Trim(line) # ""

\* extractFrom with the next line taken as the summary whatever it is
RECURSIVE extractFrom_anyNextLine(_, _)
extractFrom_anyNextLine(lines, i) ==
    IF i > Len(lines) THEN <<>>
    ELSE LET match == titleMatch(lines[i])
             summary == IF i + 1 <= Len(lines) THEN stripSummary(lines[i + 1]) ELSE NO_SUMMARY
         IN (IF match.matched /\ match.text # ""
             THEN << [title |-> stripBold(match.text), summary |-> summary] >>
             ELSE <<>>)
            \o extractFrom_anyNextLine(lines, i + 1)

\* geminiService.ts 203-215: the loop from index i on
RECURSIVE extractFrom(_, _)
extractFrom(lines, i) ==
    IF i > Len(lines) THEN <<>>
    ELSE LET match == titleMatch(lines[i])
             summary == IF i + 1 <= Len(lines) /\ ~looksLikeTitle(lines[i + 1])
                        THEN stripSummary(lines[i + 1])
                        ELSE NO_SUMMARY
         IN (IF match.matched /\ match.text # ""
             THEN << [title |-> stripBold(match.text), summary |-> summary] >>
             ELSE <<>>)
            \o extractFrom(lines, i + 1)

\* Array.prototype.slice(0, end) without the cut
slice_whole(seq, end) == seq

\* Array.prototype.slice(0, end)
slice(seq, end) == SubSeq(seq, 1, IF Len(seq) < end THEN Len(seq) ELSE end)

\* geminiService.ts 196-226: what researchTopic makes of a response
researchTopic(response) ==
    LET results == extractFrom(SelectSeq(response.lines, nonBlank), 1)
        top == slice(results, 3)
    IN [ n \in 1..Len(top) |->
           LET index == n - 1
               chunk == IF n <= Len(response.groundingChunks)
                        THEN response.groundingChunks[n]
                        ELSE [title |-> "", uri |-> ""]
           IN [ id |-> "res" \o ToString(response.now) \o ToString(index),
                title |-> IF chunk.title # "" THEN chunk.title ELSE top[n].title,
                url |-> IF chunk.uri # "" THEN chunk.uri ELSE "#",
                summary |-> top[n].summary ] ]

\* what researchTopic can return in the editor
ResearchResults == { researchTopic(response) : response \in ResearchResponses }

(***************************************************************************)
(* Section selection and the tailored prompt (src/App.tsx 198-247).        *)
(***************************************************************************)
\* lines 219-225 and 232-238: the contents written once the call has settled
tailoredContents(c, systemPrompt) ==
    Put(c.contents, c.id, [ContentOf(c.contents, c.id) EXCEPT !.systemPrompt = systemPrompt])

handleSelectSection(id) ==
    /\ inEditor
    /\ findItem(outline, id) # NoItem
    /\ activeSectionId' = id
    /\ Command("selectSection", id)
    /\ IF ContentOf(contents, id).systemPrompt = ""
       THEN /\ agentStatus' = Thinking
            /\ Started(Call("tailor", id, findItem(outline, id).title, Outline, <<>>,
                             contents, <<>>, coordinatorPrompt, NoRequest))
            /\ tailored' = tailored \cup {id}
       ELSE UNCHANGED << agentStatus, calls, tailored >>
    /\ UNCHANGED << flowVars, coordinatorPrompt, view, otherFlowVars, knowledgeVars, researchAgentStatus >>

handleSelectSectionResolved(c, responseText) ==
    /\ c.kind = "tailor"
    /\ Finished(c)
    /\ updateActiveFlow(c, [contents |->
          tailoredContents(c, createTailoredSystemPrompt(c.coordinatorPrompt, responseText))])
    /\ agentStatus' = Idle
    /\ Completion("tailorOk", c.id)
    /\ UNCHANGED << coordinatorPrompt, view, flowId, knowledgeVars,
                    tailored, activeSectionId, researchAgentStatus >>

\* handleSelectSectionRejected with a catch block that only reports the error
handleSelectSectionRejected_noFallback(c) ==
    /\ c.kind = "tailor"
    /\ Finished(c)
    /\ agentStatus' = Idle
    /\ Completion("tailorFail", c.id)
    /\ UNCHANGED << flowVars, coordinatorPrompt, view, otherFlowVars, knowledgeVars, tailored, activeSectionId,
                    researchAgentStatus >>

\* lines 228-239 (catch), 240-242 (finally)
handleSelectSectionRejected(c) ==
    /\ c.kind = "tailor"
    /\ Finished(c)
    /\ updateActiveFlow(c, [contents |-> tailoredContents(c, defaultPrompt(c.coordinatorPrompt, c.title))])
    /\ agentStatus' = Idle
    /\ Completion("tailorFail", c.id)
    /\ UNCHANGED << coordinatorPrompt, view, flowId, knowledgeVars,
                    tailored, activeSectionId, researchAgentStatus >>

handleDeselect ==
    /\ inEditor
    /\ activeSectionId # Null
    /\ activeSectionId' = Null
    /\ Command("deselect", Null)
    /\ UNCHANGED << flowVars, coordinatorPrompt, view, otherFlowVars, knowledgeVars, tailored, agentStatus, researchAgentStatus, calls >>

(***************************************************************************)
(* Synchronous edits of the active section (src/App.tsx 249-271).          *)
(***************************************************************************)
\* the section editor is shown when a section is active (Workspace, part_003 26-57)
handleContentChange(newContent) ==
    /\ inEditor
    /\ ~isOutlining
    /\ newContent # activeContent.content
    /\ contents' = Put(contents, activeSectionId, [activeContent EXCEPT !.content = newContent])
    /\ Command("contentChange", activeSectionId)
    /\ UNCHANGED << outline, outlineDraft, outlinerMessages, coordinatorPrompt, view, otherFlowVars, knowledgeVars, tailored,
                    activeSectionId, agentStatus, researchAgentStatus, calls >>

\* a sequence without the entries equal to id: currentContexts.filter(cid => cid !== id)
RECURSIVE without(_, _)
without(seq, id) ==
    IF seq = <<>> THEN <<>>
    ELSE IF Head(seq) = id THEN without(Tail(seq), id)
         ELSE << Head(seq) >> \o without(Tail(seq), id)

includes(seq, id) == \E i \in 1..Len(seq) : seq[i] = id

\* a checkbox of the Context tab: one per section other than the active one
\* (geminiService.ts 526-541); ticking reports the negation of what is shown
handleContextChange(id, isChecked) ==
    /\ inEditor
    /\ ~isOutlining
    /\ id \in SectionIds(outline) \ {activeSection.id}
    /\ isChecked = ~includes(activeContent.contextIds, id)
    /\ LET currentContexts == activeContent.contextIds
           newContexts == IF isChecked THEN Append(currentContexts, id)
                          ELSE without(currentContexts, id)
       IN contents' = Put(contents, activeSectionId, [activeContent EXCEPT !.contextIds = newContexts])
    /\ Command("contextChange", activeSectionId)
    /\ UNCHANGED << outline, outlineDraft, outlinerMessages, coordinatorPrompt, view, otherFlowVars, knowledgeVars, tailored,
                    activeSectionId, agentStatus, researchAgentStatus, calls >>

(***************************************************************************)
(* Outliner and finalize (src/App.tsx 283-333).                            *)
(***************************************************************************)
OUTLINER_ACK == "I have updated the draft outline in the workspace."
OUTLINER_ERROR == "Sorry, I encountered an error."
FINALIZED == "Outline finalized! Select a section to start writing."

\* the chat form of AgentInteractionPane.handleSubmit (geminiService.ts 335-345):
\* accepted with a non-blank prompt while agentStatus is Idle
submitAccepted == agentStatus = Idle

handleOutlineCommand(prompt) ==
    /\ inEditor
    /\ isOutlining
    /\ submitAccepted
    /\ agentStatus' = Thinking
    /\ outlinerMessages' = Append(outlinerMessages, Msg("user", prompt))
    /\ Started(Call("outline", Null, prompt, Outline, <<>>, <<>>, outlinerMessages, "",
                     NoRequest))
    /\ Command("outlineCommand", Null)
    /\ UNCHANGED << outline, contents, outlineDraft, coordinatorPrompt, view, otherFlowVars, knowledgeVars, tailored,
                    activeSectionId, researchAgentStatus >>

\* variant: the acknowledgement is logged and the draft is left as it was
handleOutlineCommandResolved_keepsDraft(c, responseText) ==
    /\ c.kind = "outline"
    /\ Finished(c)
    /\ outlinerMessages' = c.outlinerMessages \o << Msg("user", c.title), Msg("agent", OUTLINER_ACK) >>
    /\ agentStatus' = Idle
    /\ Completion("outlineOk", Null)
    /\ UNCHANGED << outline, contents, outlineDraft, coordinatorPrompt, view, otherFlowVars, knowledgeVars, tailored,
                    activeSectionId, researchAgentStatus >>

\* lines 291-298: c.title holds the prompt of the command
handleOutlineCommandResolved(c, responseText) ==
    /\ c.kind = "outline"
    /\ Finished(c)
    /\ updateActiveFlow(c,
          [ outlineDraft |-> Trim(responseText),
            outlinerMessages |-> c.outlinerMessages
                                   \o << Msg("user", c.title), Msg("agent", OUTLINER_ACK) >> ])
    /\ agentStatus' = Idle
    /\ Completion("outlineOk", Null)
    /\ UNCHANGED << coordinatorPrompt, view, flowId, knowledgeVars,
                    tailored, activeSectionId, researchAgentStatus >>

handleOutlineCommandRejected(c) ==
    /\ c.kind = "outline"
    /\ Finished(c)
    /\ updateActiveFlow(c,
          [ outlinerMessages |-> c.outlinerMessages
                                   \o << Msg("user", c.title), Msg("agent", OUTLINER_ERROR) >> ])
    /\ agentStatus' = Idle
    /\ Completion("outlineFail", Null)
    /\ UNCHANGED << coordinatorPrompt, view, flowId, knowledgeVars,
                    tailored, activeSectionId, researchAgentStatus >>

\* the outline editor is shown while no section is active (part_003 26-57)
handleOutlineDraftChange(newDraft) ==
    /\ inEditor
    /\ isOutlining
    /\ newDraft # outlineDraft
    /\ outlineDraft' = newDraft
    /\ Command("outlineDraftChange", Null)
    /\ UNCHANGED << outline, contents, outlinerMessages, coordinatorPrompt, view, otherFlowVars, knowledgeVars, tailored,
                    activeSectionId, agentStatus, researchAgentStatus, calls >>

handleFinalizeOutline ==
    /\ inEditor
    /\ isOutlining
    /\ Trim(outlineDraft) # ""
    /\ agentStatus' = Thinking
    /\ Started(Call("parse", Null, "", Outline, <<>>, <<>>, <<>>, "", NoRequest))
    /\ Command("finalizeOutline", Null)
    /\ UNCHANGED << flowVars, coordinatorPrompt, view, otherFlowVars, knowledgeVars, tailored, activeSectionId, researchAgentStatus >>

\* handleFinalizeOutlineSettled with the draft cleared in the finally block
handleFinalizeOutlineSettled_clearsDraft(c, response) ==
    /\ c.kind = "parse"
    /\ Finished(c)
    /\ LET parsed == parseOutlineText(response) IN
       IF parsed.ok
       THEN /\ outline' = parsed.outline
            /\ outlinerMessages' = << Msg("agent", FINALIZED) >>
            /\ lastEvent' = Event("finalizeOk", Null)
       ELSE /\ UNCHANGED << outline, outlinerMessages >>
            /\ lastEvent' = Event("finalizeFail", response.json)
    /\ outlineDraft' = ""
    /\ agentStatus' = Idle
    /\ budget' = budget
    /\ UNCHANGED << contents, coordinatorPrompt, view, otherFlowVars, knowledgeVars, tailored, activeSectionId, researchAgentStatus >>

\* handleFinalizeOutlineSettled with the draft left for a later update
handleFinalizeOutlineSettled_keepsDraft(c, response) ==
    /\ c.kind = "parse"
    /\ Finished(c)
    /\ LET parsed == parseOutlineText(response) IN
       IF parsed.ok
       THEN /\ outline' = parsed.outline
            /\ outlinerMessages' = << Msg("agent", FINALIZED) >>
            /\ lastEvent' = Event("finalizeOk", Null)
       ELSE /\ UNCHANGED << outline, outlinerMessages >>
            /\ lastEvent' = Event("finalizeFail", response.json)
    /\ agentStatus' = Idle
    /\ budget' = budget
    /\ UNCHANGED << contents, outlineDraft, coordinatorPrompt, view, otherFlowVars, knowledgeVars, tailored, activeSectionId,
                    researchAgentStatus >>

\* lines 320-326 (try), 327-329 (catch), 330-332 (finally)
handleFinalizeOutlineSettled(c, response) ==
    /\ c.kind = "parse"
    /\ Finished(c)
    /\ LET parsed == parseOutlineText(response) IN
       IF parsed.ok
       THEN /\ updateActiveFlow(c,
                  [ outline |-> parsed.outline, outlineDraft |-> "",
                    outlinerMessages |-> << Msg("agent", FINALIZED) >> ])
            /\ lastEvent' = Event("finalizeOk", Null)
       ELSE /\ UNCHANGED << flowVars, parked >>
            /\ lastEvent' = Event("finalizeFail", response.json)
    /\ agentStatus' = Idle
    /\ budget' = budget
    /\ UNCHANGED << coordinatorPrompt, view, flowId, knowledgeVars, tailored, activeSectionId,
                    researchAgentStatus >>

(***************************************************************************)
(* Research (src/App.tsx 335-353).                                         *)
(***************************************************************************)
\* handleResearchSubmit (geminiService.ts 347-352)
researchAccepted == researchAgentStatus = Idle

\* lines 341-344
researchedContents(c, results) ==
    Put(c.contents, c.id, [ContentOf(c.contents, c.id) EXCEPT !.research_results = results])

handleResearch ==
    /\ inEditor
    /\ activeSectionId # Null
    /\ researchAccepted
    /\ researchAgentStatus' = Thinking
    /\ Started(Call("research", activeSectionId, "", Outline, <<>>, contents, <<>>, "",
                     NoRequest))
    /\ Command("research", activeSectionId)
    /\ UNCHANGED << flowVars, coordinatorPrompt, view, otherFlowVars, knowledgeVars, tailored, activeSectionId, agentStatus >>

\* the step records the response researchTopic received
handleResearchResolved(c, response) ==
    /\ c.kind = "research"
    /\ Finished(c)
    /\ updateActiveFlow(c, [contents |-> researchedContents(c, researchTopic(response))])
    /\ researchAgentStatus' = Idle
    /\ CompletionWith("researchOk", c.id, << response >>)
    /\ UNCHANGED << coordinatorPrompt, view, flowId, knowledgeVars,
                    tailored, activeSectionId, agentStatus >>

handleResearchRejected(c) ==
    /\ c.kind = "research"
    /\ Finished(c)
    /\ researchAgentStatus' = Idle
    /\ Completion("researchFail", c.id)
    /\ UNCHANGED << flowVars, coordinatorPrompt, view, otherFlowVars, knowledgeVars, tailored, activeSectionId, agentStatus >>

(***************************************************************************)
(* Writer (src/App.tsx 355-412).                                           *)
(***************************************************************************)
\* lines 364-366: the log the call is made with, and the contents set before it
newMessagesOf(prompt) ==
    Append(activeContent.messages, Msg("user", finalPrompt(prompt, activeSection.title)))

\* generatedContents with the agent message left to a later update
generatedContents_contentOnly(c, responseText) ==
    Put(c.contents, c.id,
        [ContentOf(c.contents, c.id) EXCEPT
            !.content = responseText,
            !.messages = sentBy(c).messages])

\* lines 384-392
generatedContents(c, responseText) ==
    Put(c.contents, c.id,
        [ContentOf(c.contents, c.id) EXCEPT
            !.content = responseText,
            !.messages = sentBy(c).messages \o << Msg("agent", responseText) >>])

\* failedContents with the catch block building on the log as it was before the
\* command instead of newMessages
failedContents_dropsUserMessage(c, errorMessage) ==
    Put(c.contents, c.id,
        [ContentOf(c.contents, c.id) EXCEPT
            !.messages = ContentOf(c.contents, c.id).messages \o
                << Msg("agent", "I'm sorry, I encountered an error: " \o errorMessage) >>])

\* lines 398-399
failedContents(c, errorMessage) ==
    Put(c.contents, c.id,
        [ContentOf(c.contents, c.id) EXCEPT
            !.messages = sentBy(c).messages \o
                << Msg("agent", "I'm sorry, I encountered an error: " \o errorMessage) >>])

\* contextRefs with a loop that ends at the first id that resolves to no node
RECURSIVE contextRefs_stopsAtStale(_, _, _)
contextRefs_stopsAtStale(contextIds, items, cs) ==
    IF contextIds = <<>> THEN <<>>
    ELSE LET id == Head(contextIds)
             item == findItem(items, id)
             content == ContentOf(cs, id).content
             rest == contextRefs_stopsAtStale(Tail(contextIds), items, cs)
         IN IF item = NoItem THEN <<>>
            ELSE IF content # ""
                 THEN << [title |-> item.title, content |-> content] >> \o rest
                 ELSE rest

\* lines 370-373, before the join: contextIds.map(...).filter(Boolean) keeps one
\* reference per context id that resolves to a node of the outline and to
\* stored, non-empty content
RECURSIVE contextRefs(_, _, _)
contextRefs(contextIds, items, cs) ==
    IF contextIds = <<>> THEN <<>>
    ELSE LET id == Head(contextIds)
             item == findItem(items, id)
             content == ContentOf(cs, id).content
             rest == contextRefs(Tail(contextIds), items, cs)
         IN IF item # NoItem /\ content # ""
            THEN << [title |-> item.title, content |-> content] >> \o rest
            ELSE rest

\* lines 376-380: the research results of the active section and the cached
\* system prompt of activeFlow.contents (undefined, here "", without an entry)
requestOf(contextIds) ==
    Request(contextIds, contextRefs(contextIds, outline, contents),
            activeContent.research_results,
            ContentOf(contents, activeSectionId).systemPrompt)

\* prompt "" is the undefined of the Generate Initial Draft button, shown while the
\* log is empty; the chat form, shown otherwise, takes a non-blank prompt
handleGenerate(prompt, contextIds) ==
    /\ inEditor
    /\ ~isOutlining
    /\ submitAccepted
    /\ (prompt = "") = (activeContent.messages = <<>>)
    /\ agentStatus' = Thinking
    /\ outline' = updateItemStatus(outline, activeSectionId, Writing)
    /\ contents' = Put(contents, activeSectionId,
                       [activeContent EXCEPT !.messages = newMessagesOf(prompt)])
    /\ Started(Call("generate", activeSectionId, activeSection.title, activeSection.status,
                     newMessagesOf(prompt), contents, <<>>, "", requestOf(contextIds)))
    /\ Command("generate", activeSectionId)
    /\ UNCHANGED << outlineDraft, outlinerMessages, coordinatorPrompt, view, otherFlowVars, knowledgeVars, tailored,
                    activeSectionId, researchAgentStatus >>

handleGenerateResolved(c, responseText) ==
    /\ c.kind = "generate"
    /\ sentBy(c).called
    /\ Finished(c)
    /\ updateActiveFlow(c, [contents |-> generatedContents(c, responseText)])
    /\ agentStatus' = Idle
    /\ Completion("generateOk", c.id)
    /\ UNCHANGED << coordinatorPrompt, view, flowId, knowledgeVars,
                    tailored, activeSectionId, researchAgentStatus >>

\* handleGenerateRejected with setAgentStatus(Idle) at the end of the try block
\* instead of in finally
handleGenerateRejected_staysThinking(c) ==
    /\ c.kind = "generate"
    /\ Finished(c)
    /\ contents' = failedContents(c, errorOf(c))
    /\ Completion("generateFail", c.id)
    /\ UNCHANGED << outline, outlineDraft, outlinerMessages, coordinatorPrompt, view, otherFlowVars, knowledgeVars, tailored,
                    activeSectionId, agentStatus, researchAgentStatus >>

\* handleGenerateRejected with a catch block that issues the call once more
handleGenerateRejected_retries(c) ==
    /\ c.kind = "generate"
    /\ calls' = calls
    /\ contents' = failedContents(c, errorOf(c))
    /\ agentStatus' = Thinking
    /\ Completion("generateFail", c.id)
    /\ UNCHANGED << outline, outlineDraft, outlinerMessages, coordinatorPrompt, view, otherFlowVars, knowledgeVars, tailored,
                    activeSectionId, researchAgentStatus >>

handleGenerateRejected(c) ==
    /\ c.kind = "generate"
    /\ Finished(c)
    /\ updateActiveFlow(c, [contents |-> failedContents(c, errorOf(c))])
    /\ agentStatus' = Idle
    /\ Completion("generateFail", c.id)
    /\ UNCHANGED << coordinatorPrompt, view, flowId, knowledgeVars,
                    tailored, activeSectionId, researchAgentStatus >>

\* the commit button without its disabled attribute
commitEnabled_always == TRUE

\* disabled={!content} of the commit button (part_003 44-51)
commitEnabled == activeContent.content # ""

\* variant: the commit marks every childless node as well
handleCommit_everyLeaf ==
    /\ inEditor
    /\ ~isOutlining
    /\ IF commitEnabled
       THEN outline' = updateItemStatus_everyLeaf(outline, activeSectionId, Completed)
       ELSE UNCHANGED outline
    /\ Command("commit", activeSectionId)
    /\ UNCHANGED << contents, outlineDraft, outlinerMessages, coordinatorPrompt, view, otherFlowVars, knowledgeVars, tailored,
                    activeSectionId, agentStatus, researchAgentStatus, calls >>

\* the commit button of a section's workspace: a click on the disabled button
\* reaches no handler
handleCommit ==
    /\ inEditor
    /\ ~isOutlining
    /\ IF commitEnabled
       THEN outline' = updateItemStatus(outline, activeSectionId, Completed)
       ELSE UNCHANGED outline
    /\ Command("commit", activeSectionId)
    /\ UNCHANGED << contents, outlineDraft, outlinerMessages, coordinatorPrompt, view, otherFlowVars, knowledgeVars, tailored,
                    activeSectionId, agentStatus, researchAgentStatus, calls >>

(***************************************************************************)
(* The editor as a state machine.                                          *)
(***************************************************************************)
Next ==
    \/ \E id \in SectionIds(outline) : handleSelectSection(id)
    \/ \E c \in InFlight : \E r \in TailorResponses : handleSelectSectionResolved(c, r)
    \/ \E c \in InFlight : handleSelectSectionRejected(c)
    \/ handleDeselect
    \/ \E t \in UserTexts : handleContentChange(t)
    \/ \E id \in SectionIds(outline) : \E b \in BOOLEAN : handleContextChange(id, b)
    \/ \E p \in Prompts : handleOutlineCommand(p)
    \/ \E c \in InFlight : \E r \in OutlinerResponses : handleOutlineCommandResolved(c, r)
    \/ \E c \in InFlight : handleOutlineCommandRejected(c)
    \/ \E t \in DraftTexts : handleOutlineDraftChange(t)
    \/ handleFinalizeOutline
    \/ \E c \in InFlight : \E r \in ParseResponses : handleFinalizeOutlineSettled(c, r)
    \/ handleResearch
    \/ \E c \in InFlight : \E r \in ResearchResponses : handleResearchResolved(c, r)
    \/ \E c \in InFlight : handleResearchRejected(c)
    \/ \E p \in Prompts \cup {""} : handleGenerate(p, activeContent.contextIds)
    \/ \E c \in InFlight : \E r \in WriterResponses : handleGenerateResolved(c, r)
    \/ \E c \in InFlight : handleGenerateRejected(c)
    \/ handleCommit

Spec == Init /\ [][Next]_vars

\* a call in flight always resolves or rejects, and its continuation then runs
Settle ==
    \E c \in InFlight :
        \/ \E r \in TailorResponses : handleSelectSectionResolved(c, r)
        \/ handleSelectSectionRejected(c)
        \/ \E r \in OutlinerResponses : handleOutlineCommandResolved(c, r)
        \/ handleOutlineCommandRejected(c)
        \/ \E r \in ParseResponses : handleFinalizeOutlineSettled(c, r)
        \/ \E r \in ResearchResponses : handleResearchResolved(c, r)
        \/ handleResearchRejected(c)
        \/ \E r \in WriterResponses : handleGenerateResolved(c, r)
        \/ handleGenerateRejected(c)

\* the same editor with a shorter run of commands
InitShort == InitWith(MaxShortCommands)

ShortSpec == InitShort /\ [][Next]_vars

LiveSpec == InitShort /\ [][Next]_vars /\ WF_vars(Settle)

(***************************************************************************)
(* The project dashboard (src/App.tsx 152-180): leaving the editor, editing *)
(* the coordinator prompt, and opening the flow again.                      *)
(***************************************************************************)
\* the entry of a section that was visited and then edited
WrittenEntry(text) ==
    [DefaultContent EXCEPT
        !.content = text,
        !.systemPrompt = createTailoredSystemPrompt(DEFAULT_COORDINATOR_PROMPT, "You are a writer.")]

\* the text a user can type into the coordinator prompt box
CoordinatorPrompts == {DEFAULT_COORDINATOR_PROMPT, "EDITED"}

inDashboard == view = "projectDashboard"

\* variant: the section stays selected when the editor is left
handleBackToDashboard_keepsSection ==
    /\ inEditor
    /\ view' = "projectDashboard"
    /\ Command("backToDashboard", Null)
    /\ UNCHANGED << flowVars, otherFlowVars, knowledgeVars, coordinatorPrompt, tailored,
                    activeSectionId, agentStatus, researchAgentStatus, calls >>

handleBackToDashboard ==
    /\ inEditor
    /\ view' = "projectDashboard"
    /\ activeSectionId' = Null
    /\ Command("backToDashboard", Null)
    /\ UNCHANGED << flowVars, otherFlowVars, knowledgeVars, coordinatorPrompt, tailored,
                    agentStatus, researchAgentStatus, calls >>

handleCoordinatorPromptChange(value) ==
    /\ inDashboard
    /\ value # coordinatorPrompt
    /\ coordinatorPrompt' = value
    /\ Command("coordinatorPromptChange", Null)
    /\ UNCHANGED << flowVars, view, otherFlowVars, knowledgeVars, tailored, activeSectionId, agentStatus,
                    researchAgentStatus, calls >>

handleSelectFlow ==
    /\ inDashboard
    /\ view' = "editor"
    /\ activeSectionId' = Null
    /\ Command("selectFlow", Null)
    /\ UNCHANGED << flowVars, otherFlowVars, knowledgeVars, coordinatorPrompt, tailored,
                    agentStatus, researchAgentStatus, calls >>

\* a finalized flow, open in the editor, whose sections have all been visited
InitProject ==
    /\ outline \in { addMetadataToOutline(r, 0, "") : r \in RawOutlines }
    /\ contents = [id \in SectionIds(outline) |-> WrittenEntry("")]
    /\ outlineDraft = ""
    /\ outlinerMessages = << Msg("agent", FINALIZED) >>
    /\ coordinatorPrompt = DEFAULT_COORDINATOR_PROMPT
    /\ view = "editor"
    /\ flowId = "F1"
    /\ parked = << >>
    /\ globalKnowledgeFiles = << >>
    /\ globalKnowledgeContext = ""
    /\ reads = {}
    /\ activeSectionId = Null
    /\ agentStatus = Idle
    /\ researchAgentStatus = Idle
    /\ calls = EmptyBag
    /\ tailored = SectionIds(outline)
    /\ lastEvent = Event("init", Null)
    /\ budget = MaxShortCommands

\* the Writer's part of the editor, and the dashboard
NextProject ==
    \/ \E id \in SectionIds(outline) : handleSelectSection(id)
    \/ handleDeselect
    \/ \E p \in Prompts \cup {""} : handleGenerate(p, activeContent.contextIds)
    \/ \E c \in InFlight : \E r \in WriterResponses : handleGenerateResolved(c, r)
    \/ \E c \in InFlight : handleGenerateRejected(c)
    \/ handleBackToDashboard
    \/ \E value \in CoordinatorPrompts : handleCoordinatorPromptChange(value)
    \/ handleSelectFlow

ProjectSpec == InitProject /\ [][NextProject]_vars

(***************************************************************************)
(* updateItemStatus on its own: a tree, and calls with any id and status.   *)
(***************************************************************************)
TreeOutlines ==
    RawOutlines \cup
    { << [title |-> "1. Intro", children |-> << RawLeaf("1.1. Sub") >>], RawLeaf("2. Body") >> }

\* an id no node has
MissingId == "9"

TreeIds == UNION { SectionIds(addMetadataToOutline(r, 0, "")) : r \in TreeOutlines }

InitTree ==
    /\ outline \in { addMetadataToOutline(r, 0, "") : r \in TreeOutlines }
    /\ contents = <<>>
    /\ outlineDraft = ""
    /\ outlinerMessages = << Msg("agent", FINALIZED) >>
    /\ coordinatorPrompt = DEFAULT_COORDINATOR_PROMPT
    /\ view = "editor"
    /\ flowId = "F1"
    /\ parked = << >>
    /\ globalKnowledgeFiles = << >>
    /\ globalKnowledgeContext = ""
    /\ reads = {}
    /\ activeSectionId = Null
    /\ agentStatus = Idle
    /\ researchAgentStatus = Idle
    /\ calls = EmptyBag
    /\ tailored = {}
    /\ lastEvent = Event("init", Null)
    /\ budget = MaxTreeSteps

\* a caller of updateItemStatus that stores the result (src/App.tsx 359-360, 408-409)
applyUpdateItemStatus(id, status) ==
    /\ outline' = updateItemStatus(outline, id, status)
    /\ Command("updateItemStatus", id)
    /\ UNCHANGED << contents, outlineDraft, outlinerMessages, coordinatorPrompt, view, otherFlowVars, knowledgeVars, tailored,
                    activeSectionId, agentStatus, researchAgentStatus, calls >>

NextTree ==
    \E id \in TreeIds \cup {MissingId} : \E status \in SectionStatus :
        applyUpdateItemStatus(id, status)

TreeSpec == InitTree /\ [][NextTree]_vars

(***************************************************************************)
(* handleGenerate on its own: a finalized flow in which sections have been  *)
(* written and committed, and a caller that passes any list of context ids. *)
(***************************************************************************)
WrittenOutline ==
    addMetadataToOutline(
        << [title |-> "1. Intro", children |-> << RawLeaf("1.1. Sub") >>], RawLeaf("2. Body") >>,
        0, "")

WrittenIds == SectionIds(WrittenOutline)

RECURSIVE withStatuses(_, _)
withStatuses(items, statusOf) ==
    [ i \in 1..Len(items) |->
        [items[i] EXCEPT !.status = statusOf[items[i].id],
                         !.children = withStatuses(items[i].children, statusOf)] ]

\* the lists of at most MaxContextIds ids, of sections or of no section
ContextIdLists ==
    UNION { [1..n -> WrittenIds \cup {MissingId}] : n \in 0..MaxContextIds }

InitAssembler ==
    /\ outline \in { withStatuses(WrittenOutline, f) :
                        f \in [WrittenIds -> {Writing, Completed}] }
    /\ contents \in { [id \in WrittenIds |-> WrittenEntry(text[id])] :
                         text \in [WrittenIds -> UserTexts] }
    /\ outlineDraft = ""
    /\ outlinerMessages = << Msg("agent", FINALIZED) >>
    /\ coordinatorPrompt = DEFAULT_COORDINATOR_PROMPT
    /\ view = "editor"
    /\ flowId = "F1"
    /\ parked = << >>
    /\ globalKnowledgeFiles = << >>
    /\ globalKnowledgeContext = ""
    /\ reads = {}
    /\ activeSectionId \in WrittenIds
    /\ agentStatus = Idle
    /\ researchAgentStatus = Idle
    /\ calls = EmptyBag
    /\ tailored = WrittenIds
    /\ lastEvent = Event("init", Null)
    /\ budget = 1

\* one call in a run
NextAssembler ==
    /\ budget > 0
    /\ \E p \in Prompts \cup {""} : \E ids \in ContextIdLists : handleGenerate(p, ids)

AssemblerSpec == InitAssembler /\ [][NextAssembler]_vars

(***************************************************************************)
(* addMetadataToOutline (geminiService.ts 75-88) applied to any parsed     *)
(* outline (geminiService.ts 163-169).                                     *)
(***************************************************************************)
NodeTitles == {"", "Intro", "Body", "Sub"}

\* the lists of raw nodes with n nodes in all: a first tree of k nodes, then the rest
RECURSIVE RawItems(_)
RawItems(n) ==
    IF n = 0 THEN { <<>> }
    ELSE UNION { { << [title |-> t, children |-> ch] >> \o rest :
                     t \in NodeTitles, ch \in RawItems(k - 1), rest \in RawItems(n - k) } :
                 k \in 1..n }

ParsedItems == UNION { RawItems(n) : n \in 0..MaxNodes }

InitNumbering ==
    /\ outline = <<>>
    /\ contents = <<>>
    /\ outlineDraft = ""
    /\ outlinerMessages = << Msg("agent", FINALIZED) >>
    /\ coordinatorPrompt = DEFAULT_COORDINATOR_PROMPT
    /\ view = "editor"
    /\ flowId = "F1"
    /\ parked = << >>
    /\ globalKnowledgeFiles = << >>
    /\ globalKnowledgeContext = ""
    /\ reads = {}
    /\ activeSectionId = Null
    /\ agentStatus = Idle
    /\ researchAgentStatus = Idle
    /\ calls = EmptyBag
    /\ tailored = {}
    /\ lastEvent = Event("init", Null)
    /\ budget = 1

\* parseOutlineText returns addMetadataToOutline(parsedOutline) and the caller
\* stores it; the step records the parsed outline
applyAddMetadataToOutline(parsedOutline) ==
    /\ outline' = addMetadataToOutline(parsedOutline, 0, "")
    /\ CommandWith("addMetadataToOutline", Null, << parsedOutline >>)
    /\ UNCHANGED << contents, outlineDraft, outlinerMessages, coordinatorPrompt, view, otherFlowVars, knowledgeVars, tailored,
                    activeSectionId, agentStatus, researchAgentStatus, calls >>

NextNumbering ==
    /\ budget > 0
    /\ \E parsedOutline \in ParsedItems : applyAddMetadataToOutline(parsedOutline)

NumberingSpec == InitNumbering /\ [][NextNumbering]_vars

(***************************************************************************)
(* Export of the completed document (src/App.tsx 414-452).                 *)
(***************************************************************************)
\* String.prototype.repeat
RECURSIVE repeat(_, _)
repeat(str, count) == IF count = 0 THEN "" ELSE str \o repeat(str, count - 1)

\* buildMarkdown descending into the children of emitted nodes only
RECURSIVE buildMarkdown_skipsSubtree(_, _)
buildMarkdown_skipsSubtree(items, cs) ==
    IF items = <<>> THEN ""
    ELSE LET item == Head(items)
             content == ContentOf(cs, item.id).content
         IN (IF item.status = Completed /\ content # ""
             THEN repeat("#", item.level + 1) \o " " \o item.title \o "\n\n"
                      \o content \o "\n\n"
                      \o buildMarkdown_skipsSubtree(item.children, cs)
             ELSE "")
            \o buildMarkdown_skipsSubtree(Tail(items), cs)

\* lines 417-429
RECURSIVE buildMarkdown(_, _)
buildMarkdown(items, cs) ==
    IF items = <<>> THEN ""
    ELSE LET item == Head(items)
             content == ContentOf(cs, item.id).content
         IN (IF item.status = Completed /\ content # ""
             THEN repeat("#", item.level + 1) \o " " \o item.title \o "\n\n"
                      \o content \o "\n\n"
             ELSE "")
            \o buildMarkdown(item.children, cs)
            \o buildMarkdown(Tail(items), cs)

\* lines 446-452; the export button is disabled with it
isExportDisabled == ~ \E id \in SectionIds(outline) : StatusOf(outline, id) = Completed

\* handleExportDocument clearing the content it has exported
handleExportDocument_clearsContent ==
    /\ inEditor
    /\ ~isExportDisabled
    /\ LET markdownContent == buildMarkdown(outline, contents)
       IN CommandWith("export", Null,
                      IF Trim(markdownContent) = "" THEN <<>> ELSE << markdownContent >>)
    /\ contents' = [id \in DOMAIN contents |-> [contents[id] EXCEPT !.content = ""]]
    /\ UNCHANGED << outline, outlineDraft, outlinerMessages, coordinatorPrompt, view, otherFlowVars, knowledgeVars, tailored,
                    activeSectionId, agentStatus, researchAgentStatus, calls >>

\* the step records the file handed to the browser, or nothing when there is no
\* text to export (lines 432-435)
handleExportDocument ==
    /\ inEditor
    /\ ~isExportDisabled
    /\ LET markdownContent == buildMarkdown(outline, contents)
       IN CommandWith("export", Null,
                      IF Trim(markdownContent) = "" THEN <<>> ELSE << markdownContent >>)
    /\ UNCHANGED << flowVars, coordinatorPrompt, view, otherFlowVars, knowledgeVars, tailored, activeSectionId, agentStatus,
                    researchAgentStatus, calls >>

\* a finalized flow whose sections have been visited, written or left empty, and
\* brought to any status
InitExport ==
    /\ outline \in { withStatuses(WrittenOutline, f) : f \in [WrittenIds -> SectionStatus] }
    /\ contents \in { [id \in WrittenIds |-> WrittenEntry(text[id])] :
                         text \in [WrittenIds -> UserTexts] }
    /\ outlineDraft = ""
    /\ outlinerMessages = << Msg("agent", FINALIZED) >>
    /\ coordinatorPrompt = DEFAULT_COORDINATOR_PROMPT
    /\ view = "editor"
    /\ flowId = "F1"
    /\ parked = << >>
    /\ globalKnowledgeFiles = << >>
    /\ globalKnowledgeContext = ""
    /\ reads = {}
    /\ activeSectionId = Null
    /\ agentStatus = Idle
    /\ researchAgentStatus = Idle
    /\ calls = EmptyBag
    /\ tailored = WrittenIds
    /\ lastEvent = Event("init", Null)
    /\ budget = MaxExportCommands

NextExport ==
    \/ handleExportDocument
    \/ \E id \in SectionIds(outline) : handleSelectSection(id)
    \/ \E t \in UserTexts : handleContentChange(t)
    \/ handleCommit

ExportSpec == InitExport /\ [][NextExport]_vars

(***************************************************************************)
(* The Research service given any response (geminiService.ts 182-232) and  *)
(* handleResearch storing its results (src/App.tsx 335-353).               *)
(***************************************************************************)
\* numbered, bold, titled and marker-only lines, a summary line, any other line,
\* and a blank line
LineTexts == {"1. A", "2. **B**", "Title: C", "3.", "Summary: s", "plain", " "}

ResponseLines == UNION { [1..n -> LineTexts] : n \in 0..MaxLines }

GroundingChunks == { <<>>, << [title |-> "G", uri |-> "http://g"] >> }

AnyResponses ==
    { Response(lines, groundingChunks, 101) :
        lines \in ResponseLines, groundingChunks \in GroundingChunks }

\* an earlier answer with three results
EarlierResponse == Response(<< "1. A", "2. **B**", "Title: C" >>, <<>>, 100)

\* section 1 is open and holds no research results, or those of an earlier command
InitResearch ==
    /\ outline = WrittenOutline
    /\ contents \in { [id \in WrittenIds |->
                         IF id = "1"
                         THEN [WrittenEntry("") EXCEPT !.research_results = results]
                         ELSE WrittenEntry("")] :
                       results \in { <<>>, researchTopic(EarlierResponse) } }
    /\ outlineDraft = ""
    /\ outlinerMessages = << Msg("agent", FINALIZED) >>
    /\ coordinatorPrompt = DEFAULT_COORDINATOR_PROMPT
    /\ view = "editor"
    /\ flowId = "F1"
    /\ parked = << >>
    /\ globalKnowledgeFiles = << >>
    /\ globalKnowledgeContext = ""
    /\ reads = {}
    /\ activeSectionId = "1"
    /\ agentStatus = Idle
    /\ researchAgentStatus = Idle
    /\ calls = EmptyBag
    /\ tailored = WrittenIds
    /\ lastEvent = Event("init", Null)
    /\ budget = 1

NextResearch ==
    \/ handleResearch
    \/ \E c \in InFlight : \E response \in AnyResponses : handleResearchResolved(c, response)
    \/ \E c \in InFlight : handleResearchRejected(c)

ResearchSpec == InitResearch /\ [][NextResearch]_vars

(***************************************************************************)
(* The Writer service and its callers: handleGenerate in a finalized flow, *)
(* and generateContent (geminiService.ts 27) called with any history.      *)
(***************************************************************************)
\* the histories of at most MaxHistory messages
MessageLogs ==
    UNION { [1..n -> { Msg("user", p) : p \in Prompts } \cup
                     { Msg("agent", r) : r \in WriterResponses }] : n \in 0..MaxHistory }

\* the context texts a caller can pass
SectionTexts == { contextSections(refs) :
                    refs \in { <<>>, << [title |-> "2. Body", content |-> "edit"] >> } }
ResearchTexts == { researchContextOf(results) : results \in ResearchResults }

\* section 1 is open; it has research results or none, and refers to section 2 or
\* to no section
InitWriter ==
    /\ outline = WrittenOutline
    /\ contents \in { [id \in WrittenIds |->
                         IF id = "1"
                         THEN [WrittenEntry("") EXCEPT !.research_results = results,
                                                       !.contextIds = ids]
                         ELSE WrittenEntry(text)] :
                       results \in ResearchResults, ids \in { <<>>, << "2" >> },
                       text \in UserTexts }
    /\ outlineDraft = ""
    /\ outlinerMessages = << Msg("agent", FINALIZED) >>
    /\ coordinatorPrompt = DEFAULT_COORDINATOR_PROMPT
    /\ view = "editor"
    /\ flowId = "F1"
    /\ parked = << >>
    /\ globalKnowledgeFiles = << >>
    /\ globalKnowledgeContext = ""
    /\ reads = {}
    /\ activeSectionId = "1"
    /\ agentStatus = Idle
    /\ researchAgentStatus = Idle
    /\ calls = EmptyBag
    /\ tailored = WrittenIds
    /\ lastEvent = Event("init", Null)
    /\ budget = MaxWriterCommands

\* a caller other than handleGenerate; the step records the arguments and what
\* the call did with them
callGenerateContent(messages, sections, research) ==
    /\ budget > 0
    /\ budget' = budget - 1
    /\ lastEvent' = EventWith("generateContent", Null,
                              << messages, sections, research,
                                 generateContent(messages, sections, research,
                                                 globalKnowledgeContext, "") >>)
    /\ UNCHANGED << flowVars, coordinatorPrompt, view, otherFlowVars, knowledgeVars, tailored, activeSectionId, agentStatus,
                    researchAgentStatus, calls >>

NextWriter ==
    \/ \E p \in Prompts \cup {""} : handleGenerate(p, activeContent.contextIds)
    \/ \E c \in InFlight : \E r \in WriterResponses : handleGenerateResolved(c, r)
    \/ \E c \in InFlight : handleGenerateRejected(c)
    \/ /\ budget > 0
       /\ \E messages \in MessageLogs : \E sections \in SectionTexts :
             \E research \in ResearchTexts : callGenerateContent(messages, sections, research)

WriterSpec == InitWriter /\ [][NextWriter]_vars

(***************************************************************************)
(* The knowledge base of the project (src/App.tsx 86-107, 169-175): files  *)
(* are added on the dashboard (part_000 101), and an effect that runs when *)
(* the file list changes reads them and stores their text as one string.   *)
(***************************************************************************)
FileNames == {"a.md", "b.md"}

\* what file.text() resolves with
FileText(name) == IF name = "a.md" THEN "Alpha" ELSE "Beta"

\* lines 101-103: the text of the files, tagged with their names
contextString(files, fileContents) ==
    join([i \in 1..Len(files) |->
             "--- GLOBAL KNOWLEDGE SOURCE: " \o files[i] \o " ---\n" \o fileContents[i]],
         "\n\n")

\* lines 96-100: the text of each file, or a note when its read fails
fileContentsOf(files, readable) ==
    [i \in 1..Len(files) |->
        IF readable[i] THEN FileText(files[i])
        ELSE "[Could not read file: " \o files[i] \o "]"]

\* lines 169-175, and the effect the new file list starts (87-96, 106-107): with
\* files it awaits their reads, over the list of this render
handleGlobalFilesChange(files) ==
    /\ inDashboard
    /\ Len(globalKnowledgeFiles) + Len(files) <= MaxFiles
    /\ globalKnowledgeFiles' = globalKnowledgeFiles \o files
    /\ IF Len(globalKnowledgeFiles') = 0
       THEN /\ globalKnowledgeContext' = ""
            /\ UNCHANGED reads
       ELSE /\ reads' = reads \cup { [files |-> globalKnowledgeFiles'] }
            /\ UNCHANGED globalKnowledgeContext
    /\ Command("globalFilesChange", Null)
    /\ UNCHANGED << flowVars, otherFlowVars, coordinatorPrompt, view, tailored, activeSectionId,
                    agentStatus, researchAgentStatus, calls >>

\* lines 96-104: Promise.all has settled for one run of the effect; readable
\* tells which reads succeeded
generateContextSettled(run, readable) ==
    /\ run \in reads
    /\ reads' = reads \ {run}
    /\ globalKnowledgeContext' = contextString(run.files, fileContentsOf(run.files, readable))
    /\ Completion("generateContext", Null)
    /\ UNCHANGED << flowVars, otherFlowVars, globalKnowledgeFiles, coordinatorPrompt, view,
                    tailored, activeSectionId, agentStatus, researchAgentStatus, calls >>

\* the dashboard of a project whose flow has been written: section 1 has research
\* results or none, and refers to section 2 or to no section
InitKnowledge ==
    /\ outline = WrittenOutline
    /\ contents \in { [id \in WrittenIds |->
                         IF id = "1"
                         THEN [WrittenEntry("") EXCEPT !.research_results = results,
                                                       !.contextIds = ids]
                         ELSE WrittenEntry("edit")] :
                       results \in ResearchResults, ids \in { <<>>, << "2" >> } }
    /\ outlineDraft = ""
    /\ outlinerMessages = << Msg("agent", FINALIZED) >>
    /\ coordinatorPrompt = DEFAULT_COORDINATOR_PROMPT
    /\ view = "projectDashboard"
    /\ flowId = "F1"
    /\ parked = << >>
    /\ globalKnowledgeFiles = << >>
    /\ globalKnowledgeContext = ""
    /\ reads = {}
    /\ activeSectionId = Null
    /\ agentStatus = Idle
    /\ researchAgentStatus = Idle
    /\ calls = EmptyBag
    /\ tailored = WrittenIds
    /\ lastEvent = Event("init", Null)
    /\ budget = MaxKnowledgeCommands

NextKnowledge ==
    \/ \E name \in FileNames : handleGlobalFilesChange(<< name >>)
    \/ \E run \in reads : \E readable \in [1..Len(run.files) -> BOOLEAN] :
          generateContextSettled(run, readable)
    \/ handleSelectFlow
    \/ handleBackToDashboard
    \/ \E id \in SectionIds(outline) : handleSelectSection(id)
    \/ \E p \in Prompts \cup {""} : handleGenerate(p, activeContent.contextIds)
    \/ \E c \in InFlight : \E r \in WriterResponses : handleGenerateResolved(c, r)
    \/ \E c \in InFlight : handleGenerateRejected(c)

KnowledgeSpec == InitKnowledge /\ [][NextKnowledge]_vars

(***************************************************************************)
(* A project with two flows (src/App.tsx 137-163): the editor is left for  *)
(* the dashboard or the project list and opened again on either flow while *)
(* calls are in flight.                                                    *)
(***************************************************************************)
\* lines 153-157 for a flow other than the one that was open last: the four flow
\* variables now hold that flow
handleSelectOtherFlow(id) ==
    /\ inDashboard
    /\ id \in DOMAIN parked
    /\ view' = "editor"
    /\ activeSectionId' = Null
    /\ flowId' = id
    /\ parked' = [ k \in (DOMAIN parked \ {id}) \cup {flowId} |->
                     IF k = flowId THEN activeFlow ELSE parked[k] ]
    /\ outline' = parked[id].outline
    /\ contents' = parked[id].contents
    /\ outlineDraft' = parked[id].outlineDraft
    /\ outlinerMessages' = parked[id].outlinerMessages
    /\ Command("selectFlow", Null)
    /\ UNCHANGED << knowledgeVars, coordinatorPrompt, tailored, agentStatus,
                    researchAgentStatus, calls >>

\* lines 159-163: activeSectionId is not among the states it sets
handleBackToProjectList ==
    /\ inDashboard
    /\ view' = "projectList"
    /\ Command("backToProjectList", Null)
    /\ UNCHANGED << flowVars, otherFlowVars, knowledgeVars, coordinatorPrompt, tailored,
                    activeSectionId, agentStatus, researchAgentStatus, calls >>

\* lines 137-142, on the project of the model
handleSelectProject ==
    /\ view = "projectList"
    /\ view' = "projectDashboard"
    /\ activeSectionId' = Null
    /\ Command("selectProject", Null)
    /\ UNCHANGED << flowVars, otherFlowVars, knowledgeVars, coordinatorPrompt, tailored,
                    agentStatus, researchAgentStatus, calls >>

\* a written flow whose sections hold the given text
WrittenFlow(text) ==
    [ outline |-> WrittenOutline,
      contents |-> [id \in WrittenIds |-> WrittenEntry(text)],
      outlineDraft |-> "",
      outlinerMessages |-> << Msg("agent", FINALIZED) >> ]

\* flow F1 is open on its section 1; flow F2 has the same outline and other text
InitFlows ==
    /\ outline = WrittenFlow("").outline
    /\ contents = WrittenFlow("").contents
    /\ outlineDraft = WrittenFlow("").outlineDraft
    /\ outlinerMessages = WrittenFlow("").outlinerMessages
    /\ coordinatorPrompt = DEFAULT_COORDINATOR_PROMPT
    /\ view = "editor"
    /\ flowId = "F1"
    /\ parked = [ id \in {"F2"} |-> WrittenFlow("edit") ]
    /\ globalKnowledgeFiles = << >>
    /\ globalKnowledgeContext = ""
    /\ reads = {}
    /\ activeSectionId = "1"
    /\ agentStatus = Idle
    /\ researchAgentStatus = Idle
    /\ calls = EmptyBag
    /\ tailored = WrittenIds
    /\ lastEvent = Event("init", Null)
    /\ budget = MaxFlowCommands

NextFlows ==
    \/ \E id \in SectionIds(outline) : handleSelectSection(id)
    \/ \E t \in UserTexts : handleContentChange(t)
    \/ handleResearch
    \/ \E c \in InFlight : \E response \in ResearchResponses : handleResearchResolved(c, response)
    \/ \E c \in InFlight : handleResearchRejected(c)
    \/ \E p \in Prompts \cup {""} : handleGenerate(p, activeContent.contextIds)
    \/ \E c \in InFlight : \E r \in WriterResponses : handleGenerateResolved(c, r)
    \/ \E c \in InFlight : handleGenerateRejected(c)
    \/ handleBackToDashboard
    \/ handleSelectFlow
    \/ \E id \in DOMAIN parked : handleSelectOtherFlow(id)
    \/ handleBackToProjectList
    \/ handleSelectProject

FlowsSpec == InitFlows /\ [][NextFlows]_vars

(***************************************************************************)
(* The section commands called with no section to act on: each handler     *)
(* returns at its first line (src/App.tsx 199-202, 336, 356, 406).         *)
(***************************************************************************)
\* a handler that returns before its first update
returns(op, id) ==
    /\ Command(op, id)
    /\ UNCHANGED << flowVars, coordinatorPrompt, view, otherFlowVars, knowledgeVars, tailored, activeSectionId, agentStatus,
                    researchAgentStatus, calls >>

handleSelectSectionReturns(id) ==
    /\ inEditor
    /\ findItem(outline, id) = NoItem
    /\ returns("selectSection", id)

handleGenerateReturns ==
    /\ inEditor
    /\ (activeSectionId = Null \/ activeSection = NoItem)
    /\ returns("generate", activeSectionId)

\* handleResearchReturns with handleResearch lacking its first line
handleResearchReturns_noGuard ==
    /\ inEditor
    /\ activeSectionId = Null
    /\ researchAccepted
    /\ researchAgentStatus' = Thinking
    /\ Started(Call("research", activeSectionId, "", Outline, <<>>, contents, <<>>, "",
                     NoRequest))
    /\ Command("research", activeSectionId)
    /\ UNCHANGED << flowVars, coordinatorPrompt, view, otherFlowVars, knowledgeVars, tailored, activeSectionId, agentStatus >>

handleResearchReturns ==
    /\ inEditor
    /\ activeSectionId = Null
    /\ returns("research", activeSectionId)

handleCommitReturns ==
    /\ inEditor
    /\ activeSectionId = Null
    /\ returns("commit", activeSectionId)

\* ids a caller can pass that the tree may not hold
CallerIds == {"1", "1.1"}

NextOutlining ==
    \/ Next
    \/ \E id \in CallerIds : handleSelectSectionReturns(id)
    \/ handleGenerateReturns
    \/ handleResearchReturns
    \/ handleCommitReturns

OutliningSpec == InitShort /\ [][NextOutlining]_vars

AllIds == UNION { SectionIds(addMetadataToOutline(r, 0, "")) : r \in RawOutlines }

TypeOK ==
    /\ activeSectionId \in {Null} \cup AllIds
    /\ view \in {"editor", "projectDashboard", "projectList"}
    /\ coordinatorPrompt \in CoordinatorPrompts
    /\ tailored \subseteq AllIds
    /\ agentStatus \in AgentStatus
    /\ researchAgentStatus \in AgentStatus
    /\ NumCalls <= MaxCalls
    /\ budget \in 0..MaxCommands
    /\ DOMAIN contents \subseteq AllIds
    /\ \A id \in SectionIds(outline) : StatusOf(outline, id) \in SectionStatus

(***************************************************************************)
(* Properties.                                                             *)
(***************************************************************************)
IsPrefix(p, q) == Len(p) <= Len(q) /\ SubSeq(q, 1, Len(p)) = p

Rank(status) == CASE status = Outline -> 0 [] status = Writing -> 1 [] OTHER -> 2

GenerateCalls(id) == { c \in CallsOf("generate") : c.id = id }

\* the call whose continuation runs in this step
Settles(c, op) == c \in InFlight /\ Finished(c) /\ lastEvent'.op = op

\* the steps of the selectSection, generateForSection and commitSection commands
WriterSteps ==
    {"selectSection", "tailorOk", "tailorFail", "generate", "generateOk", "generateFail", "commit"}

\* C1: in a step of selectSection, generateForSection or commitSection no node's
\* status moves backward in the order Outline < Writing < Completed.
C1_StatusOnlyMovesForward ==
    [][ lastEvent'.op \in WriterSteps =>
          \A id \in SectionIds(outline) :
              Rank(StatusOf(outline', id)) >= Rank(StatusOf(outline, id)) ]_vars

\* C2: the step that completes a Writer call for section A, resolved or rejected,
\* leaves the entry of every other section B exactly as it was.
C2_WriterCompletionLeavesOtherSections ==
    [][ lastEvent'.op \in {"generateOk", "generateFail"} =>
          \A b \in (DOMAIN contents \cup DOMAIN contents') \ {lastEvent'.id} :
              /\ b \in DOMAIN contents
              /\ b \in DOMAIN contents'
              /\ contents'[b] = contents[b] ]_vars

\* C3: a section id that has an entry in contents has one in every later state.
C3_EntriesAreNeverDeleted ==
    [][ DOMAIN contents \subseteq DOMAIN contents' ]_vars

\* C4: the messages log of every section only grows: the log before a step is a
\* prefix of the log after it.
C4_MessagesAppendOnly ==
    [][ \A id \in DOMAIN contents :
          IsPrefix(contents[id].messages, ContentOf(contents', id).messages) ]_vars

\* C5: at most one Writer call is in flight for a section.
C5_OneWriterCallPerSection ==
    \A c \in CallsOf("generate") :
        /\ CopiesIn(c, calls) = 1
        /\ GenerateCalls(c.id) = {c}

\* C6 as stated: after a failed Writer call the section's status, content and
\* messages are what they were before the command was issued.
C6_FailureRestoresSection ==
    [][ \A c \in InFlight : Settles(c, "generateFail") =>
          /\ StatusOf(outline', c.id) = c.status
          /\ ContentOf(contents', c.id).content = ContentOf(c.contents, c.id).content
          /\ ContentOf(contents', c.id).messages = ContentOf(c.contents, c.id).messages ]_vars

\* C6 amended: after a failed Writer call the section's content is what it was
\* when the command was issued, its messages are the log of that moment followed
\* by the command's user message and one agent error message, and handling the
\* failure leaves the outline (so the status Writing set by the command) as it is.
C6_FailureKeepsContentAndLogsError ==
    [][ \A c \in InFlight : Settles(c, "generateFail") =>
          LET before == ContentOf(c.contents, c.id)
              after == ContentOf(contents', c.id)
          IN /\ after.content = before.content
             /\ Len(after.messages) = Len(before.messages) + 2
             /\ IsPrefix(before.messages, after.messages)
             /\ after.messages[Len(before.messages) + 1].sender = "user"
             /\ after.messages[Len(before.messages) + 2].sender = "agent"
             /\ outline' = outline ]_vars

C6_Witness ==
    /\ lastEvent.op = "generateFail"
    /\ StatusOf(outline, lastEvent.id) = Writing
    /\ Len(ContentOf(contents, lastEvent.id).messages) >= 2

\* C7: the step that handles a failed finalize (call failed, invalid JSON, or a
\* parsed value that is no list) changes none of outline, outlineDraft and
\* outlinerMessages and sets agentStatus to Idle.
C7_FinalizeFailureChangesNothing ==
    [][ lastEvent'.op = "finalizeFail" =>
          /\ outline' = outline
          /\ outlineDraft' = outlineDraft
          /\ outlinerMessages' = outlinerMessages
          /\ agentStatus' = Idle ]_vars

C7_Witness ==
    /\ lastEvent = Event("finalizeFail", "object")
    /\ outline # <<>>
    /\ Trim(outlineDraft) # ""

\* C8: a successful finalize gives no node an id that a node of the previous tree
\* had or that an entry of contents is stored under.
C8_IdsAreNeverReused ==
    [][ lastEvent'.op = "finalizeOk" =>
          SectionIds(outline') \cap (SectionIds(outline) \cup DOMAIN contents) = {} ]_vars

\* C9: a command that starts a call sets its agent's status to Thinking, and a
\* status that is Thinking is eventually Idle again, for the agent status and
\* for the research agent status.
C9_ThinkingLeadsToIdle ==
    /\ [][ /\ lastEvent'.op \in {"outlineCommand", "finalizeOutline", "generate"}
              => agentStatus' = Thinking
           /\ (lastEvent'.op = "selectSection" /\ calls' # calls) => agentStatus' = Thinking
           /\ lastEvent'.op = "research" => researchAgentStatus' = Thinking ]_vars
    /\ (agentStatus = Thinking) ~> (agentStatus = Idle)
    /\ (researchAgentStatus = Thinking) ~> (researchAgentStatus = Idle)

C9_Witness ==
    /\ lastEvent.op = "generateFail"
    /\ agentStatus = Idle
    /\ researchAgentStatus = Thinking

\* C10: in the state a successful Writer completion produces, the section's
\* content is the response and its log ends with the agent message carrying it.
C10_ContentAndMessageTogether ==
    lastEvent.op = "generateOk" =>
        LET entry == ContentOf(contents, lastEvent.id)
        IN /\ entry.content \in WriterResponses
           /\ entry.messages # <<>>
           /\ entry.messages[Len(entry.messages)] = Msg("agent", entry.content)

C10_Witness ==
    /\ lastEvent.op = "generateOk"
    /\ Len(ContentOf(contents, lastEvent.id).messages) >= 4

\* C11: createTailoredSystemPrompt is called at most once for a section: a
\* selection that starts the call is a selection of a section the call was never
\* made for before.
C11_TailoredAtMostOnce ==
    [][ (lastEvent'.op = "selectSection" /\ calls' # calls) =>
          lastEvent'.id \notin tailored ]_vars

TailoringFor(id) == \E c \in CallsOf("tailor") : c.id = id

\* C12: a section whose tailoring call is in flight eventually has a systemPrompt;
\* when the call fails, the value stored is the fallback built from the
\* coordinator prompt and the section title, and agentStatus is Idle.
C12_TailoringAlwaysYieldsPrompt ==
    /\ \A id \in AllIds :
          TailoringFor(id) ~> (ContentOf(contents, id).systemPrompt # "")
    /\ [][ \A c \in InFlight : Settles(c, "tailorFail") =>
              /\ ContentOf(contents', c.id).systemPrompt
                    = defaultPrompt(c.coordinatorPrompt, c.title)
              /\ agentStatus' = Idle ]_vars

C12_Witness ==
    /\ lastEvent.op = "tailorFail"
    /\ findItem(outline, lastEvent.id) # NoItem
    /\ ContentOf(contents, lastEvent.id).systemPrompt
          = defaultPrompt(coordinatorPrompt, findItem(outline, lastEvent.id).title)
    /\ agentStatus = Idle

\* the fields of a node other than its children
OwnFields(item) ==
    [id |-> item.id, title |-> item.title, level |-> item.level, status |-> item.status]

\* C13: updateItemStatus(T, i, S) changes the value of node i only (its status),
\* and every subtree that does not contain node i is the same object as in T.
C13_OnlyThePathIsReplaced ==
    [][ (lastEvent'.op = "updateItemStatus" /\ findItem(outline, lastEvent'.id) # NoItem) =>
          LET i == lastEvent'.id
              before == allSections(outline)
              after == allSections(outline')
              objects == allSections(updateItemStatusObjects(outline, i))
          IN /\ Len(after) = Len(before)
             /\ \A k \in 1..Len(before) :
                   /\ before[k].id # i => OwnFields(after[k]) = OwnFields(before[k])
                   /\ before[k].id = i =>
                         OwnFields(after[k])
                           = [OwnFields(before[k]) EXCEPT !.status = after[k].status]
                   /\ findItem(<< before[k] >>, i) = NoItem => objects[k].object = "same"
        ]_vars

\* C14: updateItemStatus with an id no node of the tree has returns the tree
\* unchanged.
C14_MissingIdIsNoOp ==
    [][ (lastEvent'.op = "updateItemStatus" /\ findItem(outline, lastEvent'.id) = NoItem) =>
          outline' = outline ]_vars

C14_Witness ==
    /\ lastEvent = Event("updateItemStatus", MissingId)
    /\ \E id \in SectionIds(outline) : StatusOf(outline, id) = Completed
    /\ \E id \in SectionIds(outline) : findItem(outline, id).children # <<>>

\* C15: commitSection on a section whose content is empty changes nothing: the
\* section's status stays what it was and does not become Completed.
C15_EmptyContentIsNotCommitted ==
    [][ (lastEvent'.op = "commit" /\ ContentOf(contents, lastEvent'.id).content = "") =>
          /\ outline' = outline
          /\ StatusOf(outline', lastEvent'.id) = StatusOf(outline, lastEvent'.id) ]_vars

C15_Witness ==
    /\ lastEvent.op = "commit"
    /\ ContentOf(contents, lastEvent.id).content = ""
    /\ StatusOf(outline, lastEvent.id) = Writing

\* the Writer call a generateForSection step starts
NewCall == CHOOSE c \in BagToSet(calls' (-) calls) : TRUE

StartsWriterCall == lastEvent'.op = "generate" /\ calls' # calls

\* the reference the assembler builds for a section
RefOf(id) == [title |-> findItem(outline, id).title, content |-> ContentOf(contents, id).content]

\* C16: the references built for a Writer call on section s do not contain s's
\* own content, whatever contextIds the caller passes.
C16_NoSelfReference ==
    [][ StartsWriterCall =>
          LET refs == NewCall.request.contextRefs
          IN \A k \in 1..Len(refs) : refs[k] # RefOf(activeSectionId) ]_vars

\* C17: every reference built for a Writer call is the content of a section
\* whose status is Completed.
C17_OnlyCommittedContent ==
    [][ StartsWriterCall =>
          LET refs == NewCall.request.contextRefs
          IN \A k \in 1..Len(refs) :
                 \E id \in SectionIds(outline) :
                     /\ StatusOf(outline, id) = Completed
                     /\ refs[k] = RefOf(id) ]_vars

\* the context ids that resolve to a node of the outline and to stored content
Resolved(contextIds) ==
    SelectSeq(contextIds,
              LAMBDA id : id \in SectionIds(outline) /\ ContentOf(contents, id).content # "")

\* C18: a context id that resolves to no node of the outline is skipped, and
\* the references built are those of the ids that do resolve, in the order given.
C18_StaleIdsAreSkipped ==
    [][ StartsWriterCall =>
          LET request == NewCall.request
              refs == request.contextRefs
              resolved == Resolved(request.contextIds)
          IN /\ Len(refs) = Len(resolved)
             /\ \A k \in 1..Len(refs) : refs[k] = RefOf(resolved[k])
             /\ request.contextSections =
                    join([k \in 1..Len(refs) |-> formatRef(RefOf(resolved[k]))], "\n\n")
        ]_vars

C18_Witness ==
    \E c \in CallsOf("generate") :
        /\ Len(c.request.contextIds) = 3
        /\ c.request.contextIds[2] = MissingId
        /\ Len(c.request.contextRefs) = 2
        /\ c.request.contextRefs[1] # c.request.contextRefs[2]

\* C19: the system instruction of a Writer call is the coordinator prompt in
\* force when the call is made, followed by the section's persona prompt.
C19_InstructionStartsWithCoordinatorPrompt ==
    [][ StartsWriterCall =>
          NewCall.request.systemInstruction \in
              { createTailoredSystemPrompt(coordinatorPrompt, r) : r \in TailorResponses }
              \cup { defaultPrompt(coordinatorPrompt, activeSection.title) } ]_vars

\* a tree without the statuses of its nodes
RECURSIVE Shape(_)
Shape(items) ==
    [ i \in 1..Len(items) |->
        [id |-> items[i].id, title |-> items[i].title, children |-> Shape(items[i].children)] ]

ParsedOutlines == { addMetadataToOutline(r, 0, "") : r \in RawOutlines }

\* C20: the step of a successful finalize installs the parsed tree and clears
\* outlineDraft together, and no other step gives the flow a tree: the outline
\* takes a new shape (from empty to non-empty included) only in such a step.
C20_TreeAndDraftChangeTogether ==
    /\ [][ lastEvent'.op = "finalizeOk" =>
              /\ outline' \in ParsedOutlines
              /\ outlineDraft' = "" ]_vars
    /\ [][ Shape(outline') # Shape(outline) =>
              /\ lastEvent'.op = "finalizeOk"
              /\ outlineDraft' = "" ]_vars

C20_Witness ==
    /\ lastEvent.op = "finalizeOk"
    /\ outline \in ParsedOutlines
    /\ outlineDraft = ""
    /\ DOMAIN contents # {}

SectionCommands == {"selectSection", "generate", "commit", "research"}

\* C21: while the outline tree is empty no section is selected and no Writer,
\* Research or tailoring call is in flight, and a selectSection, generate, commit
\* or research command leaves the flow, the selection, both status flags and the
\* calls in flight as they were
C21_EmptyTreeAdmitsNoSectionCommand ==
    /\ [](outline = <<>> =>
            /\ activeSectionId = Null
            /\ CallsOf("tailor") \cup CallsOf("generate") \cup CallsOf("research") = {})
    /\ [][ (outline = <<>> /\ lastEvent' # lastEvent /\ lastEvent'.op \in SectionCommands) =>
             UNCHANGED << flowVars, coordinatorPrompt, view, otherFlowVars, knowledgeVars, tailored, activeSectionId,
                          agentStatus, researchAgentStatus, calls >> ]_vars

C21_Witness ==
    /\ outline = <<>>
    /\ outlineDraft # ""
    /\ Len(outlinerMessages) > 1
    /\ lastEvent = Event("generate", Null)

FailureSteps == {"tailorFail", "outlineFail", "finalizeFail", "researchFail", "generateFail"}

\* C22: a step starts at most one model call and only a user command starts one;
\* the continuation that handles a failed call ends that call and starts none
C22_OneCallPerCommand ==
    [][ /\ NumCalls' <= NumCalls + 1
        /\ NumCalls' > NumCalls => budget' = budget - 1
        /\ (budget' = budget /\ lastEvent'.op \in FailureSteps) =>
              /\ calls' \sqsubseteq calls
              /\ NumCalls' = NumCalls - 1 ]_vars

C22_Witness ==
    /\ lastEvent.op = "generateFail"
    /\ calls = EmptyBag
    /\ agentStatus = Idle
    /\ ContentOf(contents, lastEvent.id).messages # <<>>

DirectCall == lastEvent.op = "generateContent"

\* C23: generateContent given an empty history throws its own error and does not
\* reach the model, given any other history it reaches the model; and every call
\* handleGenerate makes carries a history that ends with the user's message
C23_EmptyHistoryFailsFast ==
    /\ DirectCall =>
          LET messages == lastEvent.data[1]
              sent == lastEvent.data[4]
          IN /\ sent.called = (messages # <<>>)
             /\ messages = <<>> => (sent.thrown = EMPTY_HISTORY_ERROR /\ sent.contents = <<>>)
             /\ messages # <<>> => sent.thrown = ""
    /\ \A c \in CallsOf("generate") :
          /\ c.newMessages # <<>>
          /\ c.newMessages[Len(c.newMessages)].sender = "user"
          /\ sentBy(c).called

C23_Witness ==
    /\ DirectCall
    /\ lastEvent.data[1] = <<>>
    /\ \E c \in CallsOf("generate") : Len(c.newMessages) = 1

\* what the claim expects of a call that reached the model: one turn per message,
\* every turn but the last with the text of its message, the last user turn with
\* the context around the text of its message
SplicedIntoLastTurnOnly(messages, sections, research, sent) ==
    /\ Len(sent.contents) = Len(messages)
    /\ \A k \in 1..Len(messages) :
          /\ sent.contents[k].role = (IF messages[k].sender = "user" THEN "user" ELSE "model")
          /\ sent.contents[k].text =
                IF k = Len(messages) /\ messages[k].sender = "user"
                THEN splice(globalKnowledgeContext, research, sections, messages[k].text)
                ELSE messages[k].text

\* the texts handleGenerate stores as user messages
UserMessageTexts ==
    { finalPrompt(p, findItem(WrittenOutline, id).title) : p \in Prompts \cup {""}, id \in WrittenIds }

\* C30: generateContent puts the context into the last user turn only and sends
\* every other turn with the text of its message; the caller's messages are as
\* they were after the call, and the log a section stores holds the user's own
\* words, never the text with the context around it
C30_SpliceLeavesLogAlone ==
    /\ (DirectCall /\ lastEvent.data[4].called) =>
          /\ SplicedIntoLastTurnOnly(lastEvent.data[1], lastEvent.data[2], lastEvent.data[3],
                                     lastEvent.data[4])
          /\ lastEvent.data[4].messages = lastEvent.data[1]
    /\ \A c \in CallsOf("generate") :
          /\ SplicedIntoLastTurnOnly(c.newMessages, c.request.contextSections,
                                     researchContextOf(c.request.researchContext), sentBy(c))
          /\ sentBy(c).contents[Len(c.newMessages)].text # c.newMessages[Len(c.newMessages)].text
    /\ \A id \in DOMAIN contents : \A k \in 1..Len(contents[id].messages) :
          contents[id].messages[k].sender = "user" =>
              contents[id].messages[k].text \in UserMessageTexts

C30_Witness ==
    /\ lastEvent.op = "generateOk"
    /\ Len(contents[lastEvent.id].messages) >= 4
    /\ contents[lastEvent.id].research_results # <<>>
    /\ contents[lastEvent.id].contextIds # <<>>

\* the numbering the claim describes, node by node
RECURSIVE Numbered(_, _, _, _)
Numbered(raw, items, level, parentId) ==
    /\ Len(items) = Len(raw)
    /\ \A i \in 1..Len(raw) :
          /\ items[i].id = (IF parentId = "" THEN ToString(i) ELSE parentId \o "." \o ToString(i))
          /\ items[i].level = level
          /\ items[i].status = Outline
          /\ Numbered(raw[i].children, items[i].children, level + 1, items[i].id)

IntroBodySub == << RawLeaf("Intro"), [title |-> "Body", children |-> << RawLeaf("Sub") >>] >>

IdsOf(items) == [k \in 1..Len(allSections(items)) |-> allSections(items)[k].id]
LevelsOf(items) == [k \in 1..Len(allSections(items)) |-> allSections(items)[k].level]

\* C24: addMetadataToOutline gives every node the id of its parent, a dot and its
\* 1-based index among its siblings (the index alone at the top), the level of its
\* parent plus one (0 at the top) and the status Outline; roots Intro and Body
\* with Body's child Sub get the ids 1, 2, 2.1 and the levels 0, 0, 1
C24_IdsAndLevelsFollowPosition ==
    lastEvent.op = "addMetadataToOutline" =>
        /\ Numbered(lastEvent.data[1], outline, 0, "")
        /\ lastEvent.data[1] = IntroBodySub =>
              /\ IdsOf(outline) = << "1", "2", "2.1" >>
              /\ LevelsOf(outline) = << 0, 0, 1 >>

C24_Witness ==
    /\ lastEvent = EventWith("addMetadataToOutline", Null, << IntroBodySub >>)
    /\ IdsOf(outline) = << "1", "2", "2.1" >>

RECURSIVE LevelsFollowParent(_, _)
LevelsFollowParent(items, level) ==
    \A i \in 1..Len(items) :
        items[i].level = level /\ LevelsFollowParent(items[i].children, level + 1)

\* C25: in every state the ids of the nodes of the outline are pairwise distinct
\* and every node has the level of its parent plus one, roots level 0
C25_IdsDistinctLevelsNested ==
    /\ Cardinality(SectionIds(outline)) = Len(allSections(outline))
    /\ LevelsFollowParent(outline, 0)

C25_Witness ==
    /\ Len(allSections(outline)) >= 2
    /\ \E id \in SectionIds(outline) : findItem(outline, id).level = 1
    /\ \E id \in SectionIds(outline) : StatusOf(outline, id) = Completed

Exported(item) == item.status = Completed /\ ContentOf(contents, item.id).content # ""

\* the heading and the text of one exported node
Block(item) ==
    << "#", "##", "###" >>[item.level + 1] \o " " \o item.title \o "\n\n"
        \o ContentOf(contents, item.id).content \o "\n\n"

RECURSIVE Concat(_)
Concat(texts) == IF texts = <<>> THEN "" ELSE Head(texts) \o Concat(Tail(texts))

\* C26: the exported markdown is, in depth-first document order, the heading of
\* depth level + 1 and the content of exactly the nodes that are Completed and
\* have non-empty content, whatever the status of their ancestors
C26_ExportIsTheCompletedSections ==
    lastEvent.op = "export" =>
        LET nodes == SelectSeq(allSections(outline), Exported)
            blocks == [k \in 1..Len(nodes) |-> Block(nodes[k])]
        IN lastEvent.data = IF nodes = <<>> THEN <<>> ELSE << Concat(blocks) >>

C26_Witness ==
    /\ lastEvent.op = "export"
    /\ StatusOf(outline, "1") = Writing
    /\ ContentOf(contents, "1").content # ""
    /\ lastEvent.data = << "## 1.1. Sub\n\nedit\n\n# 2. Body\n\nedit\n\n" >>

\* C27: an export leaves the outline and the contents as they were, and an export
\* that follows an export yields the same markdown
C27_ExportIsIdempotent ==
    [][ (lastEvent'.op = "export" /\ budget' < budget) =>
          /\ outline' = outline
          /\ contents' = contents
          /\ lastEvent.op = "export" => lastEvent'.data = lastEvent.data ]_vars

C27_Witness ==
    /\ lastEvent.op = "export"
    /\ lastEvent.data # <<>>
    /\ activeSectionId = Null
    /\ budget = MaxExportCommands - 2

\* the response of the last Research step, its non-blank lines, and the results
\* the section holds after it
LastResponse == lastEvent.data[1]
LastLines == SelectSeq(LastResponse.lines, nonBlank)
LastResults == ContentOf(contents, lastEvent.id).research_results

\* C28: the results stored by a research command are the first three candidates
\* extracted from the response, in their order (fewer when fewer were extracted),
\* under pairwise distinct ids, and no section holds more than three results
C28_AtMostThreeResults ==
    /\ \A id \in DOMAIN contents :
          LET stored == contents[id].research_results
          IN /\ Len(stored) <= 3
             /\ \A j, k \in 1..Len(stored) : j # k => stored[j].id # stored[k].id
    /\ lastEvent.op = "researchOk" =>
          LET candidates == extractFrom(LastLines, 1)
          IN /\ Len(LastResults) = (IF Len(candidates) < 3 THEN Len(candidates) ELSE 3)
             /\ \A k \in 1..Len(LastResults) :
                   /\ LastResults[k].summary = candidates[k].summary
                   /\ k > Len(LastResponse.groundingChunks) =>
                         LastResults[k].title = candidates[k].title

C28_Witness ==
    /\ lastEvent.op = "researchOk"
    /\ Len(extractFrom(LastLines, 1)) = 4
    /\ Len(LastResults) = 3
    /\ LastResults[3].title = "C"

\* the lines of a list that pass a test, by their index
IndicesOf(lines, Test(_)) ==
    SelectSeq([i \in 1..Len(lines) |-> i], LAMBDA i : Test(lines[i]))

\* the summary the claim gives the candidate of line i
SummaryAfter(lines, i) ==
    IF i + 1 <= Len(lines) /\ ~looksLikeTitle(lines[i + 1])
    THEN stripSummary(lines[i + 1])
    ELSE NO_SUMMARY

\* one candidate per line that passes the test, with the summary of the claim, as
\* far as the three stored results show; and no candidate from a line that was
\* taken as the summary of the line before it
OneCandidatePerLine(lines, stored, Test(_)) ==
    LET at == IndicesOf(lines, Test)
    IN /\ Len(stored) = (IF Len(at) < 3 THEN Len(at) ELSE 3)
       /\ \A k \in 1..Len(stored) : k <= Len(at) => stored[k].summary = SummaryAfter(lines, at[k])
       /\ \A i \in 2..Len(lines) :
             (Test(lines[i - 1]) /\ ~looksLikeTitle(lines[i])) => ~titleMatch(lines[i]).matched

\* a line that matches the title pattern and has text after its marker
hasTitle(line) == titleMatch(line).matched /\ titleMatch(line).text # ""

\* C29 as claimed: every line that matches the numbered-list or "Title:" pattern
\* yields one candidate, whose summary is the next line, or the default text when
\* there is no next line or the next line matches the pattern itself; a line taken
\* as a summary yields no candidate
C29_EveryTitleLineYieldsACandidate ==
    lastEvent.op = "researchOk" => OneCandidatePerLine(LastLines, LastResults, looksLikeTitle)

\* C29 amended: the same of every line that matches the pattern and has text
\* after its marker; a line that is only a marker ("3.", "Title:") yields no
\* candidate, and still ends the search for the summary of the line before it
C29_TitledLinesYieldCandidates ==
    lastEvent.op = "researchOk" => OneCandidatePerLine(LastLines, LastResults, hasTitle)

C29_Witness ==
    /\ lastEvent.op = "researchOk"
    /\ LastResponse.lines = << "1. A", "Summary: s", "3.", "Title: C" >>
    /\ Len(LastResults) = 2
    /\ LastResults[1].summary = "s"
    /\ LastResults[2].summary = NO_SUMMARY

\* C34: when a Research call and a Writer call for the same section were in
\* flight together and complete one right after the other, in either order, the
\* section holds both the research results and the generated content with its
\* agent message: the second completion keeps what the first one wrote.
C34_ResearchAndWriterBothKept ==
    [][ \A c \in InFlight :
          /\ ( /\ lastEvent.op = "generateOk"
               /\ lastEvent.id = c.id
               /\ Settles(c, "researchOk") )
             => /\ ContentOf(contents', c.id).content = ContentOf(contents, c.id).content
                /\ ContentOf(contents', c.id).messages = ContentOf(contents, c.id).messages
          /\ ( /\ lastEvent.op = "researchOk"
               /\ lastEvent.id = c.id
               /\ Settles(c, "generateOk") )
             => ContentOf(contents', c.id).research_results
                    = ContentOf(contents, c.id).research_results ]_vars

\* the calls whose continuation sets agentStatus (tailoring, Outliner, Parse, Writer)
AgentCalls == CallsOf("tailor") \cup CallsOf("outline") \cup CallsOf("parse") \cup CallsOf("generate")

\* C35: while a tailoring, Outliner, Parse or Writer call is in flight,
\* agentStatus is Thinking.
C35_ThinkingWhileAgentCallInFlight ==
    AgentCalls # {} => agentStatus = Thinking

\* the last two entries of a log
LastTwo(log) == IF Len(log) < 2 THEN << >> ELSE << log[Len(log) - 1], log[Len(log)] >>

\* C37: an Outliner command appends the user message to outlinerMessages when it
\* starts the call; when the call succeeds outlineDraft becomes the returned
\* outline and the log ends with that user message and one acknowledgement; when
\* it fails outlineDraft is unchanged and the log ends with that user message and
\* one error message.
C37_OutlinerCommandLogsAndReplaces ==
    [][ /\ lastEvent'.op = "outlineCommand"
           => \E p \in Prompts :
                 /\ outlinerMessages' = Append(outlinerMessages, Msg("user", p))
                 /\ outlineDraft' = outlineDraft
                 /\ \E c \in CallsOf("outline")' :
                       /\ c.title = p
                       /\ CopiesIn(c, calls') = CopiesIn(c, calls) + 1
        /\ \A c \in InFlight :
              /\ Settles(c, "outlineOk")
                 => /\ \E r \in OutlinerResponses : outlineDraft' = Trim(r)
                    /\ LastTwo(outlinerMessages')
                           = << Msg("user", c.title), Msg("agent", OUTLINER_ACK) >>
              /\ Settles(c, "outlineFail")
                 => /\ outlineDraft' = outlineDraft
                    /\ LastTwo(outlinerMessages')
                           = << Msg("user", c.title), Msg("agent", OUTLINER_ERROR) >> ]_vars

\* a command failed after an earlier one had replaced the draft
C37_Witness ==
    /\ lastEvent.op = "outlineFail"
    /\ Len(outlinerMessages) = 5
    /\ outlinerMessages[3] = Msg("agent", OUTLINER_ACK)
    /\ outlinerMessages[5] = Msg("agent", OUTLINER_ERROR)
    /\ outlineDraft \in { Trim(r) : r \in OutlinerResponses }

\* a node without its status and children
Plain(item) == [id |-> item.id, title |-> item.title, level |-> item.level]

\* C38: a commit step changes only the status of the active node, to Completed:
\* the contents map, every other node (its place, id, title, level and status),
\* outlineDraft and outlinerMessages are what they were.
C38_CommitChangesOneStatus ==
    [][ lastEvent'.op = "commit" =>
          LET before == allSections(outline)
              after == allSections(outline')
          IN  /\ contents' = contents
              /\ outlineDraft' = outlineDraft
              /\ outlinerMessages' = outlinerMessages
              /\ Len(after) = Len(before)
              /\ \A i \in 1..Len(before) :
                    /\ Plain(after[i]) = Plain(before[i])
                    /\ after[i].status # before[i].status
                       => /\ before[i].id = activeSectionId
                          /\ after[i].status = Completed
              /\ (commitEnabled /\ activeSectionId \in SectionIds(outline))
                 => StatusOf(outline', activeSectionId) = Completed ]_vars

\* a parent node was committed while its child and its sibling stayed as they were
C38_Witness ==
    /\ lastEvent.op = "commit"
    /\ lastEvent.id = "1"
    /\ StatusOf(outline, "1") = Completed
    /\ StatusOf(outline, "1.1") = Outline
    /\ StatusOf(outline, "2") = Writing

\* the text the files give when the reads succeed as readable tells
RECURSIVE TaggedTexts(_, _)
TaggedTexts(files, readable) ==
    IF files = << >> THEN ""
    ELSE LET n == Len(files)
             text == IF readable[n] THEN FileText(files[n])
                     ELSE "[Could not read file: " \o files[n] \o "]"
             tagged == "--- GLOBAL KNOWLEDGE SOURCE: " \o files[n] \o " ---\n" \o text
         IN IF n = 1 THEN tagged
            ELSE TaggedTexts(SubSeq(files, 1, n - 1), readable) \o "\n\n" \o tagged

\* C33: once every run of the effect has completed, globalKnowledgeContext is the
\* concatenation, in file order, of the tagged texts of the project's current
\* globalKnowledgeFiles, and is empty when there are none.
C33_ContextFollowsTheFiles ==
    reads = {} =>
        \E readable \in [1..Len(globalKnowledgeFiles) -> BOOLEAN] :
            globalKnowledgeContext = TaggedTexts(globalKnowledgeFiles, readable)

\* what a Writer call in flight was given: the parts and the instruction
KnowledgeOf(c) == c.request.globalKnowledgeContext
ResearchOf(c) == researchContextOf(c.request.researchContext)
SectionsOf(c) == c.request.contextSections
InstructionOf(c) == c.newMessages[Len(c.newMessages)].text

\* the text of the last turn the call sent
PromptOf(c) == sentBy(c).contents[Len(sentBy(c).contents)].text

InstructionLine(c) == "\n---\nUser instruction: \"" \o InstructionOf(c) \o "\"\n"

\* C31: a context part that is empty puts no text into the Writer prompt: without
\* knowledge files globalKnowledgeContext is "" and so is the knowledge part of
\* every prompt, without research results the research part is "", without
\* references the cross-reference part is "", and the prompt then holds only the
\* other parts between the blank lines of the template.
C31_EmptyPartsLeaveNoText ==
    /\ globalKnowledgeFiles = << >> => globalKnowledgeContext = ""
    /\ \A c \in CallsOf("generate") :
          /\ globalKnowledgeFiles = << >> => KnowledgeOf(c) = ""
          /\ c.request.researchContext = << >> => ResearchOf(c) = ""
          /\ c.request.contextRefs = << >> => SectionsOf(c) = ""
          /\ KnowledgeOf(c) = ""
             => PromptOf(c) = "\n\n\n" \o ResearchOf(c) \o "\n\n" \o SectionsOf(c)
                                  \o InstructionLine(c)
          /\ c.request.researchContext = << >>
             => PromptOf(c) = "\n" \o KnowledgeOf(c) \o "\n\n\n\n" \o SectionsOf(c)
                                  \o InstructionLine(c)
          /\ c.request.contextRefs = << >>
             => PromptOf(c) = "\n" \o KnowledgeOf(c) \o "\n\n" \o ResearchOf(c) \o "\n\n"
                                  \o InstructionLine(c)

\* a prompt with knowledge and with neither research results nor references
C31_Witness ==
    \E c \in CallsOf("generate") :
        /\ c.request.researchContext = << >>
        /\ c.request.contextRefs = << >>
        /\ KnowledgeOf(c) # ""
        /\ PromptOf(c) = "\n" \o KnowledgeOf(c) \o "\n\n\n\n" \o InstructionLine(c)

\* C32: the last turn of every Writer call holds, in this order, the global
\* knowledge, the research context, the cross-reference context and the user
\* instruction, which is the user's text or the default instruction naming the
\* section's title; the system instruction is handed over apart from the turns.
C32_PartsInFixedOrder ==
    \A c \in CallsOf("generate") :
        /\ sentBy(c).called
        /\ PromptOf(c) = Concat(<< "\n", KnowledgeOf(c), "\n\n", ResearchOf(c), "\n\n",
                                   SectionsOf(c), InstructionLine(c) >>)
        /\ InstructionOf(c) \in
              Prompts \cup { "Write the content for the section titled \"" \o c.title \o "\"." }
        /\ sentBy(c).systemInstruction = ContentOf(c.contents, c.id).systemPrompt
        /\ \A k \in 1..Len(sentBy(c).contents) :
              sentBy(c).contents[k].text # sentBy(c).systemInstruction

\* the first draft of section 1 is asked for with all three parts present
C32_Witness ==
    \E c \in CallsOf("generate") :
        PromptOf(c) = "\n--- GLOBAL KNOWLEDGE SOURCE: a.md ---\nAlpha"
                      \o "\n\n--- RESEARCH RESULT: A ---\nURL: #\nSummary: s"
                      \o "\n\n--- REF: 2. Body ---\nedit"
                      \o "\n---\nUser instruction: \"Write the content for the section titled \"1. Intro\".\"\n"

\* the contents of a flow of the project, before and after the step
ContentsOfFlow(f) == IF f = flowId THEN contents ELSE parked[f].contents
ContentsOfFlowAfter(f) == IF f = flowId' THEN contents' ELSE parked'[f].contents

\* the flows of the project other than f are after the step what they were before
OtherFlowsUntouched(f) ==
    /\ flowId' = flowId
    /\ flowId # f => UNCHANGED flowVars
    /\ \A g \in DOMAIN parked \ {f} : g \in DOMAIN parked' /\ parked'[g] = parked[g]

\* the steps that apply the result of a Research or Writer call
ResultSteps == {"researchOk", "generateOk", "generateFail"}

\* C36: the result of a call goes to the flow and the section that were active
\* when the command was issued: no other flow changes, the section of the call
\* holds the result, and every other section of that flow, the newly active one
\* included, holds what it held before the step or at the time of the command,
\* never the result.
C36_ResultGoesToIssuingFlowAndSection ==
    [][ \A c \in InFlight : \A op \in ResultSteps : Settles(c, op) =>
          LET after == ContentsOfFlowAfter(c.flow)
          IN  /\ OtherFlowsUntouched(c.flow)
              /\ op = "generateOk"
                 => /\ ContentOf(after, c.id).content \in WriterResponses
                    /\ ContentOf(after, c.id).messages
                          = c.newMessages \o << Msg("agent", ContentOf(after, c.id).content) >>
              /\ op = "generateFail"
                 => ContentOf(after, c.id).messages # ContentOf(c.contents, c.id).messages
              /\ op = "researchOk"
                 => ContentOf(after, c.id).research_results = researchTopic(lastEvent'.data[1])
              /\ \A b \in WrittenIds \ {c.id} :
                    ContentOf(after, b) \in { ContentOf(ContentsOfFlow(c.flow), b),
                                              ContentOf(c.contents, b) } ]_vars

\* a Writer call issued on section 1 of flow F1 has completed while section 1 of
\* flow F2 was open: F1 holds the draft and F2 holds its own text
C36_Witness ==
    /\ lastEvent.op = "generateOk"
    /\ lastEvent.id = "1"
    /\ inEditor
    /\ flowId = "F2"
    /\ activeSectionId = "1"
    /\ ContentOf(contents, "1").content = "edit"
    /\ ContentOf(parked["F1"].contents, "1").content \in WriterResponses

\* C39: activeSectionId becomes a section id only by the selection of a node of
\* the flow that is open in the editor, and it is null after a project or a flow
\* is selected, after the return to the dashboard, and whenever the editor is
\* entered or shows another flow; so in the editor it is null or the id of a node
\* that was selected in the flow shown.
C39_SectionIdBelongsToOpenFlow ==
    [][ /\ lastEvent'.op \in {"selectProject", "selectFlow", "backToDashboard"}
           => activeSectionId' = Null
        /\ (flowId' # flowId \/ (~inEditor /\ inEditor'))
           => activeSectionId' = Null
        /\ ~inEditor' => activeSectionId' = Null
        /\ (activeSectionId' # activeSectionId /\ activeSectionId' # Null)
           => /\ lastEvent'.op = "selectSection"
              /\ inEditor
              /\ inEditor'
              /\ flowId' = flowId
              /\ findItem(outline, activeSectionId') # NoItem ]_vars

\* section 2 was selected in flow F2 after section 1 had been open in flow F1
C39_Witness ==
    /\ inEditor
    /\ flowId = "F2"
    /\ activeSectionId = "2"
    /\ lastEvent.op = "selectSection"

====
